---- MODULE Spec2Model ----
(***************************************************************************)
(* A model of rsjvm: the class-file constant-pool decoder, the metaspace   *)
(* with its symbolic-reference resolution cache, the heap, the frame /     *)
(* thread structures and the explicit-stack bytecode interpreter.          *)
(*                                                                         *)
(* Conventions.                                                            *)
(*  - A Rust Vec is a TLA+ sequence; Rust index i is TLA+ index i + 1.     *)
(*  - Option<T> is a sequence of length 0 (None) or 1 (Some).              *)
(*  - A Result is a record with a field ok; on failure the field err names *)
(*    the error kind and the other fields hold the state as the code       *)
(*    leaves it at the point of the early return.                          *)
(*  - A String is a sequence of one-character strings, so that prefix      *)
(*    tests, key formatting and descriptor scanning are computed.          *)
(*  - A usize that results from casting a negative i32 is kept as that     *)
(*    negative number (its two's-complement reading); UGe compares two     *)
(*    such numbers as the unsigned values they stand for.                  *)
(***************************************************************************)
EXTENDS Integers, Sequences, FiniteSets, TLC

VARIABLES
    frames,     \* JvmThread.stack: the frame stack, bottom first
    pc,         \* JvmThread.pc
    objects,    \* Heap.objects: Vec<Option<Object>>
    free_list,  \* Heap.free_list
    classes,    \* Metaspace.classes: class name -> ClassMetadata
    stdout,     \* lines written by println
    status,     \* "idle" | "running" | "legacy" | "returned" | "failed" | "panicked"
    error,      \* the error kind of the last failed call, "" otherwise
    error_args, \* the byte and the positions formatted into its message
    result,     \* Option<JvmValue> of the last returned call
    runs,       \* number of execute_method_with_class calls made
    calls,      \* history: per frame, how it was pushed
    fetched,    \* history: <<pc, len(code)>> of the last opcode fetch
    probe       \* scratch state of the component specifications

vars == <<frames, pc, objects, free_list, classes, stdout, status, error,
          error_args, result, runs, calls, fetched, probe>>

\* ------------------------------------------------------------------ bounds

MaxRuns == 2
MaxFrames == 3
MaxOperands == 3
MaxObjects == 2

\* --------------------------------------------------------------- Option<T>

\* A value bound to a name: `let v = ...;` followed by the rest of the block.
Let(v, rest(_)) == rest(v)

None == <<>>
Some(x) == <<x>>
IsSome(o) == Len(o) = 1
Unwrap(o) == o[1]

Last(s) == s[Len(s)]
Front(s) == SubSeq(s, 1, Len(s) - 1)

\* ---------------------------------------------------------------- JvmValue

IntV(n) == [tag |-> "Int", i |-> n]
Reference(o) == [tag |-> "Ref", r |-> o]

\* ------------------------------------------------------------------- Frame

new_with_context(max_locals, max_stack, class_name, code, return_address) ==
    [ local_vars     |-> [k \in 1..max_locals |-> IntV(0)],
      operand_stack  |-> <<>>,
      class_name     |-> class_name,
      return_address |-> return_address,
      code           |-> code,
      max_stack      |-> max_stack,
      max_locals     |-> max_locals ]

get_local(f, index) ==
    IF index < Len(f.local_vars)
    THEN [ok |-> TRUE, val |-> f.local_vars[index + 1]]
    ELSE [ok |-> FALSE, err |-> "LocalOutOfBounds"]

set_local_one_past(f, index, value) ==
    IF index > Len(f.local_vars)
    THEN [ok |-> FALSE, err |-> "LocalOutOfBounds", frame |-> f]
    ELSE [ok |-> TRUE, frame |-> [f EXCEPT !.local_vars[index + 1] = value]]

set_local(f, index, value) ==
    IF index >= Len(f.local_vars)
    THEN [ok |-> FALSE, err |-> "LocalOutOfBounds", frame |-> f]
    ELSE [ok |-> TRUE, frame |-> [f EXCEPT !.local_vars[index + 1] = value]]

push(f, value) == [f EXCEPT !.operand_stack = Append(@, value)]

pop(f) ==
    IF f.operand_stack = <<>>
    THEN [ok |-> FALSE, err |-> "StackUnderflow", frame |-> f]
    ELSE [ok |-> TRUE, val |-> Last(f.operand_stack),
          frame |-> [f EXCEPT !.operand_stack = Front(@)]]

pop_int(f) ==
    LET p == pop(f) IN
    IF ~p.ok THEN p
    ELSE IF p.val.tag = "Int" THEN [ok |-> TRUE, val |-> p.val.i, frame |-> p.frame]
    ELSE [ok |-> FALSE, err |-> "StackTypeMismatch", frame |-> p.frame]

pop_ref(f) ==
    LET p == pop(f) IN
    IF ~p.ok THEN p
    ELSE IF p.val.tag = "Ref" THEN [ok |-> TRUE, val |-> p.val.r, frame |-> p.frame]
    ELSE [ok |-> FALSE, err |-> "StackTypeMismatch", frame |-> p.frame]

stack_size(f) == Len(f.operand_stack)

\* -------------------------------------------------------------------- Heap

\* A HashMap is a function on its key set.
EmptyMap == [k \in {} |-> k]
MapHas(m, k) == k \in DOMAIN m
MapPut(m, k, v) == [x \in (DOMAIN m) \cup {k} |-> IF x = k THEN v ELSE m[x]]

new_object(class_name) == [class_name |-> class_name, fields |-> EmptyMap]

\* allocate returning the slot count for the slot index.
allocate_index_off_by_one(h, class_name) ==
    [heap |-> [objects   |-> Append(h.objects, Some(new_object(class_name))),
               free_list |-> h.free_list],
     index |-> Len(h.objects) + 1]

\* allocate taking the oldest entry of the free list for the newest.
allocate_oldest_free(h, class_name) ==
    IF h.free_list # <<>>
    THEN [heap |-> [objects   |-> [h.objects EXCEPT ![Head(h.free_list) + 1] =
                                       Some(new_object(class_name))],
                    free_list |-> Tail(h.free_list)],
          index |-> Head(h.free_list)]
    ELSE [heap |-> [objects   |-> Append(h.objects, Some(new_object(class_name))),
                    free_list |-> h.free_list],
          index |-> Len(h.objects)]

\* A heap is [objects, free_list].
allocate(h, class_name) ==
    IF h.free_list # <<>>
    THEN [heap |-> [objects   |-> [h.objects EXCEPT ![Last(h.free_list) + 1] =
                                       Some(new_object(class_name))],
                    free_list |-> Front(h.free_list)],
          index |-> Last(h.free_list)]
    ELSE [heap |-> [objects   |-> Append(h.objects, Some(new_object(class_name))),
                    free_list |-> h.free_list],
          index |-> Len(h.objects)]

\* Heap::get / get_mut: the slot exists and holds an object.
heap_get(h, index) ==
    IF index >= 0 /\ index < Len(h.objects) /\ IsSome(h.objects[index + 1])
    THEN [ok |-> TRUE, val |-> Unwrap(h.objects[index + 1])]
    ELSE [ok |-> FALSE, err |-> "BadReference"]

\* set_field replacing the field map by the one field written.
set_field_alone(h, index, name, value) ==
    LET g == heap_get(h, index) IN
    IF ~g.ok THEN [ok |-> FALSE, err |-> g.err, heap |-> h]
    ELSE [ok |-> TRUE,
          heap |-> [h EXCEPT !.objects[index + 1] =
                        Some([g.val EXCEPT !.fields = MapPut(EmptyMap, name, value)])]]

set_field(h, index, name, value) ==
    LET g == heap_get(h, index) IN
    IF ~g.ok THEN [ok |-> FALSE, err |-> g.err, heap |-> h]
    ELSE [ok |-> TRUE,
          heap |-> [h EXCEPT !.objects[index + 1] =
                        Some([g.val EXCEPT !.fields = MapPut(@, name, value)])]]

get_field(h, index, name) ==
    LET g == heap_get(h, index) IN
    IF ~g.ok THEN g
    ELSE IF MapHas(g.val.fields, name)
         THEN [ok |-> TRUE, val |-> g.val.fields[name]]
         ELSE [ok |-> FALSE, err |-> "FieldUnset"]

\* free that returns the index to the free list and leaves the slot as it is.
free_keeps_slot(h, index) ==
    IF index >= Len(h.objects)
    THEN [ok |-> FALSE, err |-> "BadReference", heap |-> h]
    ELSE [ok |-> TRUE,
          heap |-> [objects |-> h.objects, free_list |-> Append(h.free_list, index)]]

free(h, index) ==
    IF index >= Len(h.objects)
    THEN [ok |-> FALSE, err |-> "BadReference", heap |-> h]
    ELSE [ok |-> TRUE,
          heap |-> [objects   |-> [h.objects EXCEPT ![index + 1] = None],
                    free_list |-> Append(h.free_list, index)]]

object_count(h) == Cardinality({k \in 1..Len(h.objects) : IsSome(h.objects[k])})

\* ----------------------------------------------------------- constant pool

Utf8(s) == [tag |-> "Utf8", s |-> s]
Integer(v) == [tag |-> "Integer", value |-> v]
Long(v) == [tag |-> "Long", value |-> v]
Double(v) == [tag |-> "Double", value |-> v]
Class(name_index) == [tag |-> "Class", name_index |-> name_index]
FieldRef(class_index, name_and_type_index) ==
    [tag |-> "FieldRef", class_index |-> class_index,
     name_and_type_index |-> name_and_type_index]
MethodRef(class_index, name_and_type_index) ==
    [tag |-> "MethodRef", class_index |-> class_index,
     name_and_type_index |-> name_and_type_index]
InterfaceMethodRef(class_index, name_and_type_index) ==
    [tag |-> "InterfaceMethodRef", class_index |-> class_index,
     name_and_type_index |-> name_and_type_index]
NameAndType(name_index, descriptor_index) ==
    [tag |-> "NameAndType", name_index |-> name_index,
     descriptor_index |-> descriptor_index]

\* ConstantPool::new(size): size empty slots, slot 0 included.
ConstantPool_new(size) == [k \in 1..size |-> None]

\* ConstantPool::set(index, entry)
ConstantPool_set(entries, index, entry) == [entries EXCEPT ![index + 1] = Some(entry)]

\* ConstantPool::get(index)
ConstantPool_get(entries, index) ==
    IF index = 0 \/ index >= Len(entries)
    THEN [ok |-> FALSE, err |-> "BadConstantPoolIndex"]
    ELSE IF ~IsSome(entries[index + 1])
    THEN [ok |-> FALSE, err |-> "BadConstantPoolIndex"]
    ELSE [ok |-> TRUE, val |-> Unwrap(entries[index + 1])]

get_utf8(entries, index) ==
    LET g == ConstantPool_get(entries, index) IN
    IF ~g.ok THEN g
    ELSE IF g.val.tag = "Utf8" THEN [ok |-> TRUE, val |-> g.val.s]
    ELSE [ok |-> FALSE, err |-> "WrongEntryKind"]

get_class_name(entries, index) ==
    LET g == ConstantPool_get(entries, index) IN
    IF ~g.ok THEN g
    ELSE IF g.val.tag = "Class" THEN get_utf8(entries, g.val.name_index)
    ELSE [ok |-> FALSE, err |-> "WrongEntryKind"]

\* ------------------------------------------------------------ Code attribute

u16_at(b, pos) == b[pos + 1] * 256 + b[pos + 2]
u32_at(b, pos) == ((b[pos + 1] * 256 + b[pos + 2]) * 256 + b[pos + 3]) * 256 + b[pos + 4]

\* The nested attributes of a Code attribute, read from byte offset pos:
\* TRUE when all n of them lie inside the buffer.
RECURSIVE nested_attributes_ok(_, _, _)
nested_attributes_ok(b, pos, n) ==
    IF n = 0 THEN TRUE
    ELSE IF pos + 6 > Len(b) THEN FALSE
    ELSE IF pos + 6 + u32_at(b, pos + 2) > Len(b) THEN FALSE
    ELSE nested_attributes_ok(b, pos + 6 + u32_at(b, pos + 2), n - 1)

\* AttributeInfo::parse_code_attribute over the raw bytes info.
parse_code_attribute(info) ==
    IF Len(info) < 8 THEN [ok |-> FALSE, err |-> "BadFormat"]
    ELSE
    LET max_stack   == u16_at(info, 0)
        max_locals  == u16_at(info, 2)
        code_length == u32_at(info, 4)
        after_code  == 8 + code_length
    IN
    IF after_code > Len(info) THEN [ok |-> FALSE, err |-> "BadFormat"]
    ELSE IF after_code + 2 > Len(info) THEN [ok |-> FALSE, err |-> "BadFormat"]
    ELSE
    LET after_exc == after_code + 2 + 8 * u16_at(info, after_code) IN
    IF after_exc > Len(info) THEN [ok |-> FALSE, err |-> "BadFormat"]
    ELSE IF after_exc + 2 > Len(info) THEN [ok |-> FALSE, err |-> "BadFormat"]
    ELSE IF ~nested_attributes_ok(info, after_exc + 2, u16_at(info, after_exc))
    THEN [ok |-> FALSE, err |-> "BadFormat"]
    ELSE [ok |-> TRUE, max_stack |-> max_stack, max_locals |-> max_locals,
          code |-> SubSeq(info, 9, 8 + code_length)]

\* --------------------------------------------------------------- Metaspace

ACC_STATIC == 8
ACC_NATIVE == 256
ACC_ABSTRACT == 1024

\* flags & bit # 0, for a single-bit mask
has_flag(flags, bit) == (flags \div bit) % 2 = 1

\* format!("{}:{}", name, descriptor)
member_key(name, descriptor) == name \o <<":">> \o descriptor

\* starts_with that wants the whole string to be the prefix.
starts_with_whole(s, prefix) == s = prefix

starts_with(s, prefix) ==
    Len(s) >= Len(prefix) /\ SubSeq(s, 1, Len(prefix)) = prefix

RuntimeConstantPool_new ==
    [resolved_methods |-> EmptyMap, resolved_fields |-> EmptyMap,
     resolved_classes |-> EmptyMap]

\* Metaspace::extract_code_from_method: the first attribute named "Code".
RECURSIVE extract_code_from_method(_, _, _)
extract_code_from_method(method, class_file, k) ==
    IF k > Len(method.attributes)
    THEN [ok |-> FALSE, err |-> "BadFormat"]
    ELSE
    LET attr == method.attributes[k]
        attr_name == get_utf8(class_file.constant_pool, attr.name_index)
    IN
    IF ~attr_name.ok THEN attr_name
    ELSE IF attr_name.val = <<"C", "o", "d", "e">>
    THEN parse_code_attribute(attr.info)
    ELSE extract_code_from_method(method, class_file, k + 1)

\* method_metadata taking a method without a Code attribute for an empty one.
method_metadata_code_optional(method, class_file) ==
    LET name == get_utf8(class_file.constant_pool, method.name_index) IN
    IF ~name.ok THEN name
    ELSE
    LET descriptor == get_utf8(class_file.constant_pool, method.descriptor_index) IN
    IF ~descriptor.ok THEN descriptor
    ELSE
    LET is_static   == has_flag(method.access_flags, ACC_STATIC)
        is_native   == has_flag(method.access_flags, ACC_NATIVE)
        is_abstract == has_flag(method.access_flags, ACC_ABSTRACT)
        found == extract_code_from_method(method, class_file, 1)
        body == IF is_native \/ is_abstract \/ ~found.ok
                THEN [ok |-> TRUE, max_stack |-> 0, max_locals |-> 0, code |-> <<>>]
                ELSE found
    IN
    [ok |-> TRUE,
     key |-> member_key(name.val, descriptor.val),
     val |-> [name |-> name.val, descriptor |-> descriptor.val,
              access_flags |-> method.access_flags,
              max_stack |-> body.max_stack, max_locals |-> body.max_locals,
              code |-> body.code, is_static |-> is_static,
              is_native |-> is_native, is_abstract |-> is_abstract]]

\* One iteration of the loop of Metaspace::parse_methods.
method_metadata(method, class_file) ==
    LET name == get_utf8(class_file.constant_pool, method.name_index) IN
    IF ~name.ok THEN name
    ELSE
    LET descriptor == get_utf8(class_file.constant_pool, method.descriptor_index) IN
    IF ~descriptor.ok THEN descriptor
    ELSE
    LET is_static   == has_flag(method.access_flags, ACC_STATIC)
        is_native   == has_flag(method.access_flags, ACC_NATIVE)
        is_abstract == has_flag(method.access_flags, ACC_ABSTRACT)
        body == IF is_native \/ is_abstract
                THEN [ok |-> TRUE, max_stack |-> 0, max_locals |-> 0, code |-> <<>>]
                ELSE extract_code_from_method(method, class_file, 1)
    IN
    IF ~body.ok THEN body
    ELSE [ok |-> TRUE,
          key |-> member_key(name.val, descriptor.val),
          val |-> [name |-> name.val, descriptor |-> descriptor.val,
                   access_flags |-> method.access_flags,
                   max_stack |-> body.max_stack, max_locals |-> body.max_locals,
                   code |-> body.code, is_static |-> is_static,
                   is_native |-> is_native, is_abstract |-> is_abstract]]

\* Metaspace::parse_methods: the map built from methods k.. on top of acc.
RECURSIVE parse_methods(_, _, _)
parse_methods(class_file, k, acc) ==
    IF k > Len(class_file.methods) THEN [ok |-> TRUE, val |-> acc]
    ELSE
    LET m == method_metadata(class_file.methods[k], class_file) IN
    IF ~m.ok THEN m
    ELSE parse_methods(class_file, k + 1, MapPut(acc, m.key, m.val))

\* Metaspace::parse_fields
RECURSIVE parse_fields(_, _, _)
parse_fields(class_file, k, acc) ==
    IF k > Len(class_file.fields) THEN [ok |-> TRUE, val |-> acc]
    ELSE
    LET field == class_file.fields[k]
        name == get_utf8(class_file.constant_pool, field.name_index)
    IN
    IF ~name.ok THEN name
    ELSE
    LET descriptor == get_utf8(class_file.constant_pool, field.descriptor_index) IN
    IF ~descriptor.ok THEN descriptor
    ELSE parse_fields(class_file, k + 1,
             MapPut(acc, member_key(name.val, descriptor.val),
                    [name |-> name.val, descriptor |-> descriptor.val,
                     access_flags |-> field.access_flags,
                     is_static |-> has_flag(field.access_flags, ACC_STATIC)]))

\* The interface names of load_class, or the first failure.
RECURSIVE interface_names(_, _, _)
interface_names(class_file, k, acc) ==
    IF k > Len(class_file.interfaces) THEN [ok |-> TRUE, val |-> acc]
    ELSE
    LET n == get_class_name(class_file.constant_pool, class_file.interfaces[k]) IN
    IF ~n.ok THEN n
    ELSE interface_names(class_file, k + 1, Append(acc, n.val))

is_class_loaded(cls, class_name) == MapHas(cls, class_name)

\* Metaspace::load_class past the already-loaded check: the metadata of
\* class_file is built and stored under class_name.
load_new_class(cls, class_file, class_name) ==
    Let(IF class_file.super_class = 0 THEN [ok |-> TRUE, val |-> None]
        ELSE Let(get_class_name(class_file.constant_pool, class_file.super_class),
                 LAMBDA n : IF n.ok THEN [ok |-> TRUE, val |-> Some(n.val)] ELSE n),
        LAMBDA super_class :
    IF ~super_class.ok THEN [ok |-> FALSE, err |-> super_class.err, classes |-> cls]
    ELSE
    Let(interface_names(class_file, 1, <<>>), LAMBDA interfaces :
    IF ~interfaces.ok THEN [ok |-> FALSE, err |-> interfaces.err, classes |-> cls]
    ELSE
    Let(parse_methods(class_file, 1, EmptyMap), LAMBDA methods :
    IF ~methods.ok THEN [ok |-> FALSE, err |-> methods.err, classes |-> cls]
    ELSE
    Let(parse_fields(class_file, 1, EmptyMap), LAMBDA fields :
    IF ~fields.ok THEN [ok |-> FALSE, err |-> fields.err, classes |-> cls]
    ELSE
    [ok |-> TRUE, err |-> "",
     classes |-> MapPut(cls, class_name,
        [ name          |-> class_name,
          super_class   |-> super_class.val,
          interfaces    |-> interfaces.val,
          access_flags  |-> class_file.access_flags,
          constant_pool |-> class_file.constant_pool,
          runtime_pool  |-> RuntimeConstantPool_new,
          methods       |-> methods.val,
          fields        |-> fields.val,
          static_fields |-> EmptyMap,
          state         |-> "Loaded" ])]))))

\* load_class without the `is_class_loaded` early return.
load_class_replacing(cls, class_file) ==
    Let(get_class_name(class_file.constant_pool, class_file.this_class),
        LAMBDA class_name :
    IF ~class_name.ok THEN [ok |-> FALSE, err |-> class_name.err, classes |-> cls]
    ELSE load_new_class(cls, class_file, class_name.val))

\* Metaspace::load_class on the class map cls.
load_class(cls, class_file) ==
    Let(get_class_name(class_file.constant_pool, class_file.this_class),
        LAMBDA class_name :
    IF ~class_name.ok THEN [ok |-> FALSE, err |-> class_name.err, classes |-> cls]
    ELSE IF is_class_loaded(cls, class_name.val)
    THEN [ok |-> TRUE, err |-> "", classes |-> cls]
    ELSE load_new_class(cls, class_file, class_name.val))

\* ------------------------------------------------ symbolic-reference resolution

\* Vec::get(index) followed by as_ref(): the entry, or why there is none.
raw_entry(cm, index) ==
    IF index >= Len(cm.constant_pool)
    THEN [ok |-> FALSE, err |-> "BadConstantPoolIndex"]
    ELSE IF ~IsSome(cm.constant_pool[index + 1])
    THEN [ok |-> FALSE, err |-> "BadConstantPoolIndex"]
    ELSE [ok |-> TRUE, val |-> Unwrap(cm.constant_pool[index + 1])]

\* The Utf8 child of a NameAndType entry.
utf8_child(cm, index) ==
    Let(raw_entry(cm, index), LAMBDA e :
    IF ~e.ok THEN e
    ELSE IF e.val.tag = "Utf8" THEN [ok |-> TRUE, val |-> e.val.s]
    ELSE [ok |-> FALSE, err |-> "WrongEntryKind"])

resolve_name_and_type(cm, index) ==
    Let(raw_entry(cm, index), LAMBDA nat_entry :
    IF ~nat_entry.ok THEN nat_entry
    ELSE IF nat_entry.val.tag # "NameAndType"
    THEN [ok |-> FALSE, err |-> "WrongEntryKind"]
    ELSE
    Let(utf8_child(cm, nat_entry.val.name_index), LAMBDA name :
    IF ~name.ok THEN name
    ELSE
    Let(utf8_child(cm, nat_entry.val.descriptor_index), LAMBDA descriptor :
    IF ~descriptor.ok THEN descriptor
    ELSE [ok |-> TRUE, name |-> name.val, descriptor |-> descriptor.val])))

\* The class name a Class entry at index denotes, read from the raw pool.
fresh_class_ref(cm, index) ==
    Let(raw_entry(cm, index), LAMBDA class_entry :
    IF ~class_entry.ok THEN class_entry
    ELSE IF class_entry.val.tag # "Class"
    THEN [ok |-> FALSE, err |-> "WrongEntryKind"]
    ELSE utf8_child(cm, class_entry.val.name_index))

\* resolve_class_ref without the insertion into the cache.
resolve_class_ref_forgetful(cm, index) ==
    IF MapHas(cm.runtime_pool.resolved_classes, index)
    THEN [ok |-> TRUE, val |-> cm.runtime_pool.resolved_classes[index], cm |-> cm]
    ELSE
    Let(fresh_class_ref(cm, index), LAMBDA r :
    IF ~r.ok THEN [ok |-> FALSE, err |-> r.err, cm |-> cm]
    ELSE [ok |-> TRUE, val |-> r.val, cm |-> cm])

\* ClassMetadata::resolve_class_ref; cm is the metadata after the call.
resolve_class_ref(cm, index) ==
    IF MapHas(cm.runtime_pool.resolved_classes, index)
    THEN [ok |-> TRUE, val |-> cm.runtime_pool.resolved_classes[index], cm |-> cm]
    ELSE
    Let(fresh_class_ref(cm, index), LAMBDA r :
    IF ~r.ok THEN [ok |-> FALSE, err |-> r.err, cm |-> cm]
    ELSE [ok |-> TRUE, val |-> r.val,
          cm |-> [cm EXCEPT !.runtime_pool.resolved_classes = MapPut(@, index, r.val)]])

\* The member reference behind a cache miss: class name through
\* resolve_class_ref (which memoizes it), then the NameAndType children.
resolve_member_undoing(cm, class_index, name_and_type_index) ==
    Let(resolve_class_ref(cm, class_index), LAMBDA c :
    IF ~c.ok THEN [ok |-> FALSE, err |-> c.err, cm |-> c.cm]
    ELSE
    Let(resolve_name_and_type(c.cm, name_and_type_index), LAMBDA nt :
    IF ~nt.ok THEN [ok |-> FALSE, err |-> nt.err, cm |-> cm]
    ELSE [ok |-> TRUE, cm |-> c.cm,
          val |-> [class_name |-> c.val, name |-> nt.name,
                   descriptor |-> nt.descriptor]]))

resolve_member(cm, class_index, name_and_type_index) ==
    Let(resolve_class_ref(cm, class_index), LAMBDA c :
    IF ~c.ok THEN [ok |-> FALSE, err |-> c.err, cm |-> c.cm]
    ELSE
    Let(resolve_name_and_type(c.cm, name_and_type_index), LAMBDA nt :
    IF ~nt.ok THEN [ok |-> FALSE, err |-> nt.err, cm |-> c.cm]
    ELSE [ok |-> TRUE, cm |-> c.cm,
          val |-> [class_name |-> c.val, name |-> nt.name,
                   descriptor |-> nt.descriptor]]))

\* resolve_method_ref memoizing under the class index of the entry.
resolve_method_ref_wrong_key(cm, index) ==
    IF MapHas(cm.runtime_pool.resolved_methods, index)
    THEN [ok |-> TRUE, val |-> cm.runtime_pool.resolved_methods[index], cm |-> cm]
    ELSE
    Let(raw_entry(cm, index), LAMBDA cp_entry :
    IF ~cp_entry.ok THEN [ok |-> FALSE, err |-> cp_entry.err, cm |-> cm]
    ELSE IF cp_entry.val.tag \notin {"MethodRef", "InterfaceMethodRef"}
    THEN [ok |-> FALSE, err |-> "WrongEntryKind", cm |-> cm]
    ELSE
    Let(resolve_member(cm, cp_entry.val.class_index,
                       cp_entry.val.name_and_type_index), LAMBDA m :
    IF ~m.ok THEN m
    ELSE [ok |-> TRUE, val |-> m.val,
          cm |-> [m.cm EXCEPT !.runtime_pool.resolved_methods =
                                  MapPut(@, cp_entry.val.class_index, m.val)]]))

\* ClassMetadata::resolve_method_ref
resolve_method_ref(cm, index) ==
    IF MapHas(cm.runtime_pool.resolved_methods, index)
    THEN [ok |-> TRUE, val |-> cm.runtime_pool.resolved_methods[index], cm |-> cm]
    ELSE
    Let(raw_entry(cm, index), LAMBDA cp_entry :
    IF ~cp_entry.ok THEN [ok |-> FALSE, err |-> cp_entry.err, cm |-> cm]
    ELSE IF cp_entry.val.tag \notin {"MethodRef", "InterfaceMethodRef"}
    THEN [ok |-> FALSE, err |-> "WrongEntryKind", cm |-> cm]
    ELSE
    Let(resolve_member(cm, cp_entry.val.class_index,
                       cp_entry.val.name_and_type_index), LAMBDA m :
    IF ~m.ok THEN m
    ELSE [ok |-> TRUE, val |-> m.val,
          cm |-> [m.cm EXCEPT !.runtime_pool.resolved_methods =
                                  MapPut(@, index, m.val)]]))

\* resolve_field_ref taking a method reference for a field reference.
resolve_field_ref_any_member(cm, index) ==
    IF MapHas(cm.runtime_pool.resolved_fields, index)
    THEN [ok |-> TRUE, val |-> cm.runtime_pool.resolved_fields[index], cm |-> cm]
    ELSE
    Let(raw_entry(cm, index), LAMBDA cp_entry :
    IF ~cp_entry.ok THEN [ok |-> FALSE, err |-> cp_entry.err, cm |-> cm]
    ELSE IF cp_entry.val.tag \notin {"FieldRef", "MethodRef"}
    THEN [ok |-> FALSE, err |-> "WrongEntryKind", cm |-> cm]
    ELSE
    Let(resolve_member(cm, cp_entry.val.class_index,
                       cp_entry.val.name_and_type_index), LAMBDA m :
    IF ~m.ok THEN m
    ELSE [ok |-> TRUE, val |-> m.val,
          cm |-> [m.cm EXCEPT !.runtime_pool.resolved_fields =
                                  MapPut(@, index, m.val)]]))

\* ClassMetadata::resolve_field_ref
resolve_field_ref(cm, index) ==
    IF MapHas(cm.runtime_pool.resolved_fields, index)
    THEN [ok |-> TRUE, val |-> cm.runtime_pool.resolved_fields[index], cm |-> cm]
    ELSE
    Let(raw_entry(cm, index), LAMBDA cp_entry :
    IF ~cp_entry.ok THEN [ok |-> FALSE, err |-> cp_entry.err, cm |-> cm]
    ELSE IF cp_entry.val.tag # "FieldRef"
    THEN [ok |-> FALSE, err |-> "WrongEntryKind", cm |-> cm]
    ELSE
    Let(resolve_member(cm, cp_entry.val.class_index,
                       cp_entry.val.name_and_type_index), LAMBDA m :
    IF ~m.ok THEN m
    ELSE [ok |-> TRUE, val |-> m.val,
          cm |-> [m.cm EXCEPT !.runtime_pool.resolved_fields =
                                  MapPut(@, index, m.val)]]))

\* ----------------------------------------------------------------- opcodes

NOP == 0
ICONST_M1 == 2
ICONST_0 == 3
ICONST_5 == 8
BIPUSH == 16
SIPUSH == 17
ILOAD == 21
ALOAD == 25
ILOAD_0 == 26
ILOAD_3 == 29
ALOAD_0 == 42
ALOAD_3 == 45
ISTORE_0 == 59
ISTORE_3 == 62
ASTORE_0 == 75
ASTORE_3 == 78
DUP == 89
IADD == 96
ISUB == 100
IMUL == 104
IDIV == 108
IFEQ == 153
IFNE == 154
IFLT == 155
IFGE == 156
IFGT == 157
IFLE == 158
IF_ICMPEQ == 159
IF_ICMPNE == 160
IF_ICMPLT == 161
IF_ICMPGE == 162
IF_ICMPGT == 163
IF_ICMPLE == 164
GOTO == 167
IRETURN == 172
RETURN == 177
GETSTATIC == 178
GETFIELD == 180
PUTFIELD == 181
INVOKEVIRTUAL == 182
INVOKESPECIAL == 183
INVOKESTATIC == 184
OP_NEW == 187

\* Opcode bytes of the JVM that have no arm: putstatic, athrow and
\* monitorexit.
OtherOpcodes == {179, 191, 195}

\* The match arms of execute_instruction_explicit other than the default arm.
Implemented ==
    {NOP, OP_NEW, PUTFIELD, GETFIELD, INVOKESPECIAL, DUP, BIPUSH, SIPUSH, ALOAD, ILOAD,
     IADD, ISUB, IMUL, IDIV, GOTO, INVOKESTATIC, GETSTATIC, INVOKEVIRTUAL,
     IRETURN, RETURN}
    \cup (ICONST_M1..ICONST_5) \cup (ILOAD_0..ILOAD_3) \cup (ALOAD_0..ALOAD_3)
    \cup (ISTORE_0..ISTORE_3) \cup (ASTORE_0..ASTORE_3) \cup (IFEQ..IF_ICMPLE)

\* ------------------------------------------------------------ integer casts

INT_MAX == 2147483647
INT_MIN == -INT_MAX - 1

\* u16::from_be_bytes, i16::from_be_bytes, u8 as i8
u16_from_be_bytes(hi, lo) == hi * 256 + lo
i16_from_be_bytes(hi, lo) ==
    IF hi * 256 + lo >= 32768 THEN hi * 256 + lo - 65536 ELSE hi * 256 + lo
as_i8(b) == IF b >= 128 THEN b - 256 ELSE b

\* a >= b for two usize values in their two's-complement reading
UGe(a, b) ==
    IF a < 0 THEN (b >= 0 \/ a >= b) ELSE (b >= 0 /\ a >= b)

\* i32 addition: the wrapped sum and whether it overflowed.
add_i32(a, b) ==
    IF a > 0 /\ b > 0 /\ a > INT_MAX - b
    THEN [overflow |-> TRUE, val |-> ((a - INT_MAX) - 1) + ((b - INT_MAX) - 1)]
    ELSE IF a < 0 /\ b < 0 /\ a < INT_MIN - b
    THEN [overflow |-> TRUE, val |-> ((a + INT_MAX) + 1) + ((b + INT_MAX) + 1)]
    ELSE [overflow |-> FALSE, val |-> a + b]

\* i32 negation; only INT_MIN overflows (and wraps to itself).
neg_i32(a) ==
    IF a = INT_MIN THEN [overflow |-> TRUE, val |-> INT_MIN]
    ELSE [overflow |-> FALSE, val |-> -a]

sub_i32(a, b) ==
    IF b = INT_MIN
    THEN (IF a < 0 THEN [overflow |-> FALSE, val |-> (a + INT_MAX) + 1]
          ELSE [overflow |-> TRUE, val |-> (a - INT_MAX) - 1])
    ELSE add_i32(a, -b)

\* i32 multiplication by shift-and-add over the bits of |b|.
RECURSIVE mul_nat_i32(_, _)
mul_nat_i32(a, n) ==
    IF n = 0 THEN [overflow |-> FALSE, val |-> 0]
    ELSE
    LET half == mul_nat_i32(a, n \div 2)
        dbl  == add_i32(half.val, half.val)
        odd  == IF n % 2 = 1 THEN add_i32(dbl.val, a)
                ELSE [overflow |-> FALSE, val |-> dbl.val]
    IN [overflow |-> half.overflow \/ dbl.overflow \/ odd.overflow, val |-> odd.val]

mul_i32(a, b) ==
    IF b >= 0 THEN mul_nat_i32(a, b)
    ELSE IF b = INT_MIN
    THEN [overflow |-> a \notin {0, 1}, val |-> IF a % 2 = 0 THEN 0 ELSE INT_MIN]
    ELSE IF a = INT_MIN
    THEN [overflow |-> TRUE, val |-> IF b % 2 = 0 THEN 0 ELSE INT_MIN]
    ELSE mul_nat_i32(-a, -b)

\* i32 division truncates toward zero; TLA+ \div floors.
div_i32(a, b) ==
    IF (a >= 0 /\ b > 0) THEN a \div b
    ELSE IF (a < 0 /\ b < 0) THEN (-a) \div (-b)
    ELSE IF a < 0 THEN -((-a) \div b)
    ELSE -(a \div (-b))

\* --------------------------------------------------------- parse_arg_count

\* The position after the first ';' at or after k.
RECURSIVE skip_to_semicolon(_, _)
skip_to_semicolon(d, k) ==
    IF k > Len(d) THEN k
    ELSE IF d[k] = ";" THEN k + 1
    ELSE skip_to_semicolon(d, k + 1)

\* The loop of parse_arg_count with the iterator at position k.
RECURSIVE count_args(_, _)
count_args(d, k) ==
    IF k > Len(d) THEN 0
    ELSE IF d[k] = ")" THEN 0
    ELSE IF d[k] \in {"B", "C", "S", "I", "F", "Z", "J", "D"}
    THEN 1 + count_args(d, k + 1)
    ELSE IF d[k] = "L" THEN 1 + count_args(d, skip_to_semicolon(d, k + 1))
    ELSE IF d[k] = "["
    THEN (IF k + 1 > Len(d) THEN 1
          ELSE IF d[k + 1] = "L" THEN 1 + count_args(d, skip_to_semicolon(d, k + 2))
          ELSE 1 + count_args(d, k + 2))
    ELSE count_args(d, k + 1)

parse_arg_count(descriptor) == count_args(descriptor, 2)

\* ----------------------------------------------------------- println lines

digit_char(d) == <<"0", "1", "2", "3", "4", "5", "6", "7", "8", "9",
                   "a", "b", "c", "d", "e", "f">>[d + 1]

RECURSIVE to_radix(_, _)
to_radix(n, radix) ==
    IF n < radix THEN <<digit_char(n)>>
    ELSE to_radix(n \div radix, radix) \o <<digit_char(n % radix)>>

\* format!("{}", val) for an i32 other than INT_MIN
decimal(n) == IF n < 0 THEN <<"-">> \o to_radix(-n, 10) ELSE to_radix(n, 10)

\* The line println! writes for one argument.
println_line(arg) ==
    IF arg.tag = "Int" THEN decimal(arg.i)
    ELSE IF IsSome(arg.r)
    THEN <<"R", "e", "f", "e", "r", "e", "n", "c", "e", "@">> \o to_radix(Unwrap(arg.r), 16)
    ELSE <<"n", "u", "l", "l">>

\* ------------------------------------------------------------- interpreter
\* A machine state m is the record of the interpreter's fields
\* [frames, pc, objects, free_list, classes, stdout] with the outcome of the
\* running execute_method_with_class call [status, error, result].  A handler
\* maps the state before an instruction to the state after it.

top(m) == Last(m.frames)

with_top_of_caller(m, f) ==
    [m EXCEPT !.frames[IF Len(m.frames) > 1 THEN Len(m.frames) - 1 ELSE 1] = f]

with_top(m, f) == [m EXCEPT !.frames[Len(m.frames)] = f]
with_class(m, class_name, cm) == [m EXCEPT !.classes[class_name] = cm]
\* pc += n - 1: the opcode byte is left out of the length.
advance_short(m, n) == [m EXCEPT !.pc = @ + n - 1]

\* pc += n
advance(m, n) == [m EXCEPT !.pc = @ + n]

\* `return Err(..)` / `?`: the call ends with an error, the fields stay as they are.
fail(m, kind) == [m EXCEPT !.status = "failed", !.error = kind]

\* An error whose message is formatted from numbers: anyhow!(".. {} ..", args).
fail_with(m, kind, args) == [fail(m, kind) EXCEPT !.error_args = args]

\* An index past the end of the bytecode: the thread panics.
panic(m) == [m EXCEPT !.status = "panicked", !.error = "IndexOutOfBounds"]

\* An arithmetic overflow in a build with overflow checks: the thread panics.
overflow_panic(m) == [m EXCEPT !.status = "panicked", !.error = "ArithmeticOverflow"]

\* JvmThread::current_code: the bytecode of the top frame.
current_code(m) == top(m).code

\* code[pc + k]
code_at(m, k) == current_code(m)[m.pc + k + 1]

\* Whether code[pc + 1] .. code[pc + n] are inside the bytecode.
has_operands(m, n) == m.pc + n < Len(current_code(m))

operand_u16(m) == u16_from_be_bytes(code_at(m, 1), code_at(m, 2))
operand_i16(m) == i16_from_be_bytes(code_at(m, 1), code_at(m, 2))

\* The offset taken from the end of the three-byte instruction.
branch_target_past_operands(p, offset) == p + 3 + offset

\* (pc as i32 + offset as i32) as usize
branch_target(p, offset) == p + offset

\* args left in the order they were popped.
not_reversed(s) == s

\* args.reverse()
reverse(s) == [k \in 1..Len(s) |-> s[Len(s) + 1 - k]]

\* for _ in 0..n { args.push(pop()?) }: popped holds the values popped so far.
RECURSIVE pop_n(_, _, _)
pop_n(f, n, popped) ==
    IF n = 0 THEN [ok |-> TRUE, frame |-> f, popped |-> popped]
    ELSE
    LET p == pop(f) IN
    IF ~p.ok THEN [ok |-> FALSE, err |-> p.err, frame |-> f]
    ELSE pop_n(p.frame, n - 1, Append(popped, p.val))

\* The arguments of a call in push order, popped from frame f.
pop_args(f, arg_count) ==
    LET p == pop_n(f, arg_count, <<>>) IN
    IF ~p.ok THEN p
    ELSE [ok |-> TRUE, frame |-> p.frame, args |-> reverse(p.popped)]

\* for (i, arg) in args { new_frame.set_local(i + base, arg)? }, from args[k] on
RECURSIVE set_args(_, _, _, _)
set_args(f, args, base, k) ==
    IF k > Len(args) THEN [ok |-> TRUE, frame |-> f]
    ELSE
    LET r == set_local(f, (k - 1) + base, args[k]) IN
    IF ~r.ok THEN r
    ELSE set_args(r.frame, args, base, k + 1)

JAVA_PREFIX == <<"j", "a", "v", "a", "/">>
PRINTLN == <<"p", "r", "i", "n", "t", "l", "n">>

exec_nop(m) == advance(m, 1)

exec_new(m) ==
    IF ~has_operands(m, 2) THEN panic(m)
    ELSE
    LET class_name == top(m).class_name IN
    IF ~is_class_loaded(m.classes, class_name) THEN fail(m, "ClassNotLoaded")
    ELSE
    LET r  == resolve_class_ref(m.classes[class_name], operand_u16(m))
        m1 == with_class(m, class_name, r.cm)
    IN
    IF ~r.ok THEN fail(m1, r.err)
    ELSE
    LET a  == allocate([objects |-> m1.objects, free_list |-> m1.free_list], r.val)
        m2 == [m1 EXCEPT !.objects = a.heap.objects, !.free_list = a.heap.free_list]
    IN advance(with_top(m2, push(top(m2), Reference(Some(a.index)))), 3)

exec_putfield(m) ==
    IF ~has_operands(m, 2) THEN panic(m)
    ELSE
    LET class_name == top(m).class_name IN
    IF ~is_class_loaded(m.classes, class_name) THEN fail(m, "ClassNotLoaded")
    ELSE
    LET r  == resolve_field_ref(m.classes[class_name], operand_u16(m))
        m1 == with_class(m, class_name, r.cm)
    IN
    IF ~r.ok THEN fail(m1, r.err)
    ELSE
    LET value == pop(top(m1)) IN
    IF ~value.ok THEN fail(m1, value.err)
    ELSE
    LET obj_ref == pop_ref(value.frame)
        m2 == with_top(m1, obj_ref.frame)
    IN
    IF ~obj_ref.ok THEN fail(m2, obj_ref.err)
    ELSE IF ~IsSome(obj_ref.val) THEN fail(m2, "NullReference")
    ELSE
    LET w == set_field([objects |-> m2.objects, free_list |-> m2.free_list],
                       Unwrap(obj_ref.val), r.val.name, value.val)
    IN
    IF ~w.ok THEN fail(m2, w.err)
    ELSE advance([m2 EXCEPT !.objects = w.heap.objects], 3)

exec_getfield(m) ==
    IF ~has_operands(m, 2) THEN panic(m)
    ELSE
    LET class_name == top(m).class_name IN
    IF ~is_class_loaded(m.classes, class_name) THEN fail(m, "ClassNotLoaded")
    ELSE
    LET r  == resolve_field_ref(m.classes[class_name], operand_u16(m))
        m1 == with_class(m, class_name, r.cm)
    IN
    IF ~r.ok THEN fail(m1, r.err)
    ELSE
    LET obj_ref == pop_ref(top(m1))
        m2 == with_top(m1, obj_ref.frame)
    IN
    IF ~obj_ref.ok THEN fail(m2, obj_ref.err)
    ELSE IF ~IsSome(obj_ref.val) THEN fail(m2, "NullReference")
    ELSE
    LET val == get_field([objects |-> m2.objects, free_list |-> m2.free_list],
                         Unwrap(obj_ref.val), r.val.name)
    IN
    IF ~val.ok THEN fail(m2, val.err)
    ELSE advance(with_top(m2, push(top(m2), val.val)), 3)

\* The frame invokestatic builds and pushes once the target method is found.
static_call(m, method_ref, method) ==
    LET p  == pop_args(top(m), parse_arg_count(method.descriptor))
        m1 == with_top(m, p.frame)
    IN
    IF ~p.ok THEN fail(m1, p.err)
    ELSE
    LET new_frame == new_with_context(method.max_locals, method.max_stack,
                                      method_ref.class_name, method.code,
                                      Some(m.pc + 3))
        s == set_args(new_frame, p.args, 0, 1)
    IN
    IF ~s.ok THEN fail(m1, s.err)
    ELSE [m1 EXCEPT !.frames = Append(@, s.frame), !.pc = 0]

\* special_call storing the arguments from local 0 on, over the receiver.
special_call_args_from_0(m, method_ref, method) ==
    LET p  == pop_args(top(m), parse_arg_count(method.descriptor))
        m1 == with_top(m, p.frame)
    IN
    IF ~p.ok THEN fail(m1, p.err)
    ELSE
    LET objectref == pop(p.frame)
        m2 == with_top(m1, objectref.frame)
    IN
    IF ~objectref.ok THEN fail(m2, objectref.err)
    ELSE
    LET new_frame == new_with_context(method.max_locals, method.max_stack,
                                      method_ref.class_name, method.code,
                                      Some(m.pc + 3))
        this == set_local(new_frame, 0, objectref.val)
    IN
    IF ~this.ok THEN fail(m2, this.err)
    ELSE
    LET s == set_args(this.frame, p.args, 0, 1) IN
    IF ~s.ok THEN fail(m2, s.err)
    ELSE [m2 EXCEPT !.frames = Append(@, s.frame), !.pc = 0]

\* The frame invokespecial builds: the receiver in local 0, arguments from 1.
special_call(m, method_ref, method) ==
    LET p  == pop_args(top(m), parse_arg_count(method.descriptor))
        m1 == with_top(m, p.frame)
    IN
    IF ~p.ok THEN fail(m1, p.err)
    ELSE
    LET objectref == pop(p.frame)
        m2 == with_top(m1, objectref.frame)
    IN
    IF ~objectref.ok THEN fail(m2, objectref.err)
    ELSE
    LET new_frame == new_with_context(method.max_locals, method.max_stack,
                                      method_ref.class_name, method.code,
                                      Some(m.pc + 3))
        this == set_local(new_frame, 0, objectref.val)
    IN
    IF ~this.ok THEN fail(m2, this.err)
    ELSE
    LET s == set_args(this.frame, p.args, 1, 1) IN
    IF ~s.ok THEN fail(m2, s.err)
    ELSE [m2 EXCEPT !.frames = Append(@, s.frame), !.pc = 0]

\* exec_invokespecial stepping over a method that the target class lacks.
exec_invokespecial_lenient(m) ==
    IF ~has_operands(m, 2) THEN panic(m)
    ELSE
    LET class_name == top(m).class_name IN
    IF ~is_class_loaded(m.classes, class_name) THEN fail(m, "ClassNotLoaded")
    ELSE
    LET r  == resolve_method_ref(m.classes[class_name], operand_u16(m))
        m1 == with_class(m, class_name, r.cm)
    IN
    IF ~r.ok THEN fail(m1, r.err)
    ELSE
    LET is_system_class == starts_with(r.val.class_name, JAVA_PREFIX) IN
    IF ~is_system_class /\ ~is_class_loaded(m1.classes, r.val.class_name)
    THEN fail(m1, "ClassNotLoaded")
    ELSE IF is_system_class THEN advance(m1, 3)
    ELSE
    LET methods == m1.classes[r.val.class_name].methods
        method_key == member_key(r.val.name, r.val.descriptor)
    IN
    IF ~MapHas(methods, method_key) THEN advance(m1, 3)
    ELSE special_call(m1, r.val, methods[method_key])

exec_invokespecial(m) ==
    IF ~has_operands(m, 2) THEN panic(m)
    ELSE
    LET class_name == top(m).class_name IN
    IF ~is_class_loaded(m.classes, class_name) THEN fail(m, "ClassNotLoaded")
    ELSE
    LET r  == resolve_method_ref(m.classes[class_name], operand_u16(m))
        m1 == with_class(m, class_name, r.cm)
    IN
    IF ~r.ok THEN fail(m1, r.err)
    ELSE
    LET is_system_class == starts_with(r.val.class_name, JAVA_PREFIX) IN
    IF ~is_system_class /\ ~is_class_loaded(m1.classes, r.val.class_name)
    THEN fail(m1, "ClassNotLoaded")
    ELSE IF is_system_class THEN advance(m1, 3)
    ELSE
    LET methods == m1.classes[r.val.class_name].methods
        method_key == member_key(r.val.name, r.val.descriptor)
    IN
    IF ~MapHas(methods, method_key) THEN fail(m1, "MemberNotFound")
    ELSE special_call(m1, r.val, methods[method_key])

exec_invokestatic(m) ==
    IF ~has_operands(m, 2) THEN panic(m)
    ELSE
    LET class_name == top(m).class_name IN
    IF ~is_class_loaded(m.classes, class_name) THEN fail(m, "ClassNotLoaded")
    ELSE
    LET r  == resolve_method_ref(m.classes[class_name], operand_u16(m))
        m1 == with_class(m, class_name, r.cm)
    IN
    IF ~r.ok THEN fail(m1, r.err)
    ELSE
    LET is_system_class == starts_with(r.val.class_name, JAVA_PREFIX) IN
    IF ~is_system_class /\ ~is_class_loaded(m1.classes, r.val.class_name)
    THEN fail(m1, "ClassNotLoaded")
    ELSE IF is_system_class THEN advance(m1, 3)
    ELSE
    LET methods == m1.classes[r.val.class_name].methods
        method_key == member_key(r.val.name, r.val.descriptor)
    IN
    IF ~MapHas(methods, method_key) THEN fail(m1, "MemberNotFound")
    ELSE static_call(m1, r.val, methods[method_key])

exec_dup(m) ==
    LET value == pop(top(m)) IN
    IF ~value.ok THEN fail(m, value.err)
    ELSE advance(with_top(m, push(push(value.frame, value.val), value.val)), 1)

\* ICONST_M1 .. ICONST_5
exec_iconst(m) ==
    advance(with_top(m, push(top(m), IntV(code_at(m, 0) - ICONST_0))), 1)

exec_bipush(m) ==
    IF ~has_operands(m, 1) THEN panic(m)
    ELSE advance(with_top(m, push(top(m), IntV(as_i8(code_at(m, 1))))), 2)

exec_sipush(m) ==
    IF ~has_operands(m, 2) THEN panic(m)
    ELSE advance(with_top(m, push(top(m), IntV(operand_i16(m)))), 3)

\* get_local(index)?, push, pc += length
load_local(m, index, length) ==
    LET value == get_local(top(m), index) IN
    IF ~value.ok THEN fail(m, value.err)
    ELSE advance(with_top(m, push(top(m), value.val)), length)

\* pop()?, set_local(index, value)?, pc += 1
store_local(m, index) ==
    LET value == pop(top(m)) IN
    IF ~value.ok THEN fail(m, value.err)
    ELSE
    LET w == set_local(value.frame, index, value.val) IN
    IF ~w.ok THEN fail(with_top(m, value.frame), w.err)
    ELSE advance(with_top(m, w.frame), 1)

\* ALOAD | ILOAD
exec_load(m) ==
    IF ~has_operands(m, 1) THEN panic(m)
    ELSE load_local(m, code_at(m, 1), 2)

exec_aload_n(m) == load_local(m, code_at(m, 0) - ALOAD_0, 1)
exec_iload_n(m) == load_local(m, code_at(m, 0) - ILOAD_0, 1)
exec_astore_n(m) == store_local(m, code_at(m, 0) - ASTORE_0)
exec_istore_n(m) == store_local(m, code_at(m, 0) - ISTORE_0)

\* The two operands taken in the opposite order: v1 from the top, v2 beneath it.
pop_two_ints_swapped(m) ==
    LET v1 == pop_int(top(m)) IN
    IF ~v1.ok THEN [ok |-> FALSE, m |-> fail(with_top(m, v1.frame), v1.err)]
    ELSE
    LET v2 == pop_int(v1.frame) IN
    IF ~v2.ok THEN [ok |-> FALSE, m |-> fail(with_top(m, v2.frame), v2.err)]
    ELSE [ok |-> TRUE, m |-> with_top(m, v2.frame), v1 |-> v1.val, v2 |-> v2.val]

\* v2 = pop_int()?, v1 = pop_int()?
pop_two_ints(m) ==
    LET v2 == pop_int(top(m)) IN
    IF ~v2.ok THEN [ok |-> FALSE, m |-> fail(with_top(m, v2.frame), v2.err)]
    ELSE
    LET v1 == pop_int(v2.frame) IN
    IF ~v1.ok THEN [ok |-> FALSE, m |-> fail(with_top(m, v1.frame), v1.err)]
    ELSE [ok |-> TRUE, m |-> with_top(m, v1.frame), v1 |-> v1.val, v2 |-> v2.val]

\* push(Int(r.val)), pc += 1; an overflowing r panics when the build checks overflow.
push_arith(m, r, checked) ==
    IF r.overflow /\ checked THEN overflow_panic(m)
    ELSE advance(with_top(m, push(top(m), IntV(r.val))), 1)

exec_iadd(m, checked) ==
    LET p == pop_two_ints(m) IN
    IF ~p.ok THEN p.m ELSE push_arith(p.m, add_i32(p.v1, p.v2), checked)

exec_isub(m, checked) ==
    LET p == pop_two_ints(m) IN
    IF ~p.ok THEN p.m ELSE push_arith(p.m, sub_i32(p.v1, p.v2), checked)

exec_imul(m, checked) ==
    LET p == pop_two_ints(m) IN
    IF ~p.ok THEN p.m ELSE push_arith(p.m, mul_i32(p.v1, p.v2), checked)

\* IDIV without the test for a zero divisor: the division itself panics.
exec_idiv_unguarded(m) ==
    LET p == pop_two_ints(m) IN
    IF ~p.ok THEN p.m
    ELSE IF p.v2 = 0 \/ (p.v1 = INT_MIN /\ p.v2 = -1) THEN overflow_panic(p.m)
    ELSE advance(with_top(p.m, push(top(p.m), IntV(div_i32(p.v1, p.v2)))), 1)

\* i32::MIN / -1 panics in every build.
exec_idiv(m) ==
    LET p == pop_two_ints(m) IN
    IF ~p.ok THEN p.m
    ELSE IF p.v2 = 0 THEN fail(p.m, "ArithmeticDivisionByZero")
    ELSE IF p.v1 = INT_MIN /\ p.v2 = -1 THEN overflow_panic(p.m)
    ELSE advance(with_top(p.m, push(top(p.m), IntV(div_i32(p.v1, p.v2)))), 1)

\* compare with its operands exchanged.
compare_exchanged(kind, a, b) ==
    CASE kind = 0 -> b = a
      [] kind = 1 -> b # a
      [] kind = 2 -> b < a
      [] kind = 3 -> b >= a
      [] kind = 4 -> b > a
      [] kind = 5 -> b <= a

\* The comparison of IFEQ .. IFLE against 0 and of IF_ICMPEQ .. IF_ICMPLE.
compare(kind, a, b) ==
    CASE kind = 0 -> a = b
      [] kind = 1 -> a # b
      [] kind = 2 -> a < b
      [] kind = 3 -> a >= b
      [] kind = 4 -> a > b
      [] kind = 5 -> a <= b

\* IFEQ .. IFLE
exec_if(m) ==
    IF ~has_operands(m, 2) THEN panic(m)
    ELSE
    LET value == pop_int(top(m))
        m1 == with_top(m, value.frame)
    IN
    IF ~value.ok THEN fail(m1, value.err)
    ELSE IF compare(code_at(m, 0) - IFEQ, value.val, 0)
    THEN [m1 EXCEPT !.pc = branch_target(m.pc, operand_i16(m))]
    ELSE advance(m1, 3)

\* IF_ICMPEQ .. IF_ICMPLE
exec_if_icmp(m) ==
    IF ~has_operands(m, 2) THEN panic(m)
    ELSE
    LET p == pop_two_ints(m) IN
    IF ~p.ok THEN p.m
    ELSE IF compare(code_at(m, 0) - IF_ICMPEQ, p.v1, p.v2)
    THEN [p.m EXCEPT !.pc = branch_target(m.pc, operand_i16(m))]
    ELSE advance(p.m, 3)

exec_goto(m) ==
    IF ~has_operands(m, 2) THEN panic(m)
    ELSE [m EXCEPT !.pc = branch_target(m.pc, operand_i16(m))]

\* The marker reference GETSTATIC pushes for System.out.
SYSTEM_OUT == 65535

exec_getstatic(m) ==
    IF ~has_operands(m, 2) THEN panic(m)
    ELSE advance(with_top(m, push(top(m), Reference(Some(SYSTEM_OUT)))), 3)

exec_invokevirtual(m) ==
    IF ~has_operands(m, 2) THEN panic(m)
    ELSE
    LET class_name == top(m).class_name IN
    IF ~is_class_loaded(m.classes, class_name) THEN fail(m, "ClassNotLoaded")
    ELSE
    LET r  == resolve_method_ref(m.classes[class_name], operand_u16(m))
        m1 == with_class(m, class_name, r.cm)
    IN
    IF ~r.ok THEN fail(m1, r.err)
    ELSE IF r.val.name # PRINTLN THEN fail(m1, "NotImplemented")
    ELSE
    LET p  == pop_args(top(m1), parse_arg_count(r.val.descriptor))
        m2 == with_top(m1, p.frame)
    IN
    IF ~p.ok THEN fail(m2, p.err)
    ELSE
    LET objectref == pop(p.frame)
        m3 == with_top(m2, objectref.frame)
        m4 == IF Len(p.args) = 1
              THEN [m3 EXCEPT !.stdout = Append(@, println_line(p.args[1]))]
              ELSE IF p.args = <<>> THEN [m3 EXCEPT !.stdout = Append(@, <<>>)]
              ELSE m3
    IN
    IF ~objectref.ok THEN fail(m3, objectref.err)
    ELSE advance(m4, 3)

\* resume_caller without `self.thread.pc = return_addr`.
resume_caller_keeps_pc(m, old_frame, ret) ==
    IF ~IsSome(old_frame.return_address) THEN fail(m, "MissingReturnAddress")
    ELSE IF IsSome(ret) THEN with_top(m, push(top(m), Unwrap(ret))) ELSE m

\* Restore the caller after pop_frame: its PC, and the return value if any.
resume_caller(m, old_frame, ret) ==
    IF ~IsSome(old_frame.return_address) THEN fail(m, "MissingReturnAddress")
    ELSE
    LET m1 == [m EXCEPT !.pc = Unwrap(old_frame.return_address)] IN
    IF IsSome(ret) THEN with_top(m1, push(top(m1), Unwrap(ret))) ELSE m1

exec_ireturn(m) ==
    LET return_value == pop(top(m)) IN
    IF ~return_value.ok THEN fail(m, return_value.err)
    ELSE
    LET m1 == [m EXCEPT !.frames = Front(@)] IN
    IF Len(m1.frames) > 0
    THEN resume_caller(m1, return_value.frame, Some(return_value.val))
    ELSE [m1 EXCEPT !.status = "returned", !.result = Some(return_value.val)]

exec_return(m) ==
    LET m1 == [m EXCEPT !.frames = Front(@)] IN
    IF Len(m1.frames) > 0
    THEN resume_caller(m1, top(m), None)
    ELSE [m1 EXCEPT !.status = "returned", !.result = None]

\* The default arm: "Unknown opcode: 0x{:02X} at pc {}", opcode, pc.
exec_unknown_at_next(m) ==
    fail_with(m, "UnsupportedOpcode", <<code_at(m, 0), m.pc + 1>>)

exec_unknown(m) == fail_with(m, "UnsupportedOpcode", <<code_at(m, 0), m.pc>>)

\* --------------------------------------------------- the class under test
\* One class file, M, as ClassFile::from_bytes delivers it; the interpreter
\* specification starts with M loaded.  U is referred to and never loaded.

CodeInfo(max_stack, max_locals, code) ==
    <<0, max_stack, 0, max_locals, 0, 0, 0, Len(code)>> \o code \o <<0, 0, 0, 0>>

CodeAttr(max_stack, max_locals, code) ==
    <<[name_index |-> 3, info |-> CodeInfo(max_stack, max_locals, code)]>>

PoolOfM ==
    << None,
       Some(Utf8(<<"M">>)),                               \*  1
       Some(Class(1)),                                    \*  2  M
       Some(Utf8(<<"C", "o", "d", "e">>)),                \*  3
       Some(Utf8(<<"s", "u", "m">>)),                     \*  4
       Some(Utf8(<<"(", "I", "I", ")", "I">>)),           \*  5
       Some(NameAndType(4, 5)),                           \*  6
       Some(MethodRef(2, 6)),                             \*  7  M.sum:(II)I
       Some(Utf8(JAVA_PREFIX \o <<"O">>)),                \*  8
       Some(Class(8)),                                    \*  9  java/O
       Some(Utf8(<<"<", "i", "n", "i", "t", ">">>)),      \* 10
       Some(Utf8(<<"(", ")", "V">>)),                     \* 11
       Some(NameAndType(10, 11)),                         \* 12
       Some(MethodRef(9, 12)),                            \* 13  java/O.<init>:()V
       Some(Utf8(<<"U">>)),                               \* 14
       Some(Class(14)),                                   \* 15  U
       Some(MethodRef(15, 6)),                            \* 16  U.sum:(II)I
       Some(Utf8(<<"x">>)),                               \* 17
       Some(Utf8(<<"I">>)),                               \* 18
       Some(NameAndType(17, 18)),                         \* 19
       Some(FieldRef(2, 19)),                             \* 20  M.x:I
       Some(Utf8(PRINTLN)),                               \* 21
       Some(Utf8(<<"(", "I", ")", "V">>)),                \* 22
       Some(NameAndType(21, 22)),                         \* 23
       Some(MethodRef(9, 23)),                            \* 24  java/O.println:(I)V
       Some(Utf8(<<"n", "a", "t">>)),                     \* 25
       Some(NameAndType(25, 11)),                         \* 26
       Some(MethodRef(2, 26)),                            \* 27  M.nat:()V
       Some(Utf8(<<"r", "e", "c">>)),                     \* 28
       Some(NameAndType(28, 11)),                         \* 29
       Some(MethodRef(2, 29)),                            \* 30  M.rec:()V
       Some(Utf8(<<"b", "a", "d">>)),                     \* 31
       Some(Utf8(<<"(", ")", "I">>)),                     \* 32
       Some(NameAndType(31, 32)),                         \* 33
       Some(MethodRef(2, 33)),                            \* 34  M.bad:()I
       Some(NameAndType(10, 22)),                         \* 35
       Some(MethodRef(2, 35)),                            \* 36  M.<init>:(I)V
       Some(Utf8(<<"n", "o", "p", "e">>)),                \* 37
       Some(NameAndType(37, 11)),                         \* 38
       Some(MethodRef(2, 38)),                            \* 39  M.nope:()V
       Some(Utf8(<<"y">>)),                               \* 40
       Some(NameAndType(40, 18)),                         \* 41
       Some(FieldRef(2, 41)),                             \* 42  M.y:I
       Some(Utf8(JAVA_PREFIX \o <<"P">>)),                \* 43
       Some(Class(43)),                                   \* 44  java/P
       Some(MethodRef(44, 6)),                            \* 45  java/P.sum:(II)I
       Some(NameAndType(21, 5)),                          \* 46
       Some(MethodRef(9, 46)),                            \* 47  java/O.println:(II)I
       Some(NameAndType(21, 11)),                         \* 48
       Some(MethodRef(9, 48)) >>                          \* 49  java/O.println:()V

MethodsOfM ==
    << \* static int sum(int, int): iload_0 iload_1 iadd ireturn
       [access_flags |-> 9, name_index |-> 4, descriptor_index |-> 5,
        attributes |-> CodeAttr(2, 2, <<ILOAD_0, ILOAD_0 + 1, IADD, IRETURN>>)],
       \* static native void nat()
       [access_flags |-> 265, name_index |-> 25, descriptor_index |-> 11,
        attributes |-> <<>>],
       \* static void rec(): invokestatic rec; return
       [access_flags |-> 9, name_index |-> 28, descriptor_index |-> 11,
        attributes |-> CodeAttr(0, 0, <<INVOKESTATIC, 0, 30, RETURN>>)],
       \* static int bad(): ireturn on an empty operand stack
       [access_flags |-> 9, name_index |-> 31, descriptor_index |-> 32,
        attributes |-> CodeAttr(1, 0, <<IRETURN>>)],
       \* M(int): return
       [access_flags |-> 1, name_index |-> 10, descriptor_index |-> 22,
        attributes |-> CodeAttr(0, 2, <<RETURN>>)] >>

FileM ==
    [ constant_pool |-> PoolOfM, access_flags |-> 33, this_class |-> 2,
      super_class |-> 9, interfaces |-> <<>>,
      fields |-> <<[access_flags |-> 2, name_index |-> 17, descriptor_index |-> 18],
                   [access_flags |-> 2, name_index |-> 40, descriptor_index |-> 18]>>,
      methods |-> MethodsOfM ]

\* java/P, a class with a system name that is loaded: static int sum(int, int).
FileP ==
    [ constant_pool |-> << None,
                           Some(Utf8(JAVA_PREFIX \o <<"P">>)),
                           Some(Class(1)),
                           Some(Utf8(<<"C", "o", "d", "e">>)),
                           Some(Utf8(<<"s", "u", "m">>)),
                           Some(Utf8(<<"(", "I", "I", ")", "I">>)) >>,
      access_flags |-> 33, this_class |-> 2, super_class |-> 0,
      interfaces |-> <<>>, fields |-> <<>>,
      methods |-> <<[access_flags |-> 9, name_index |-> 4, descriptor_index |-> 5,
                     attributes |-> CodeAttr(2, 2, <<ILOAD_0, ILOAD_0 + 1, IADD,
                                                     IRETURN>>)]>> ]

\* The arguments of the execute_method_with_class calls that are made.
Call(class_name, code, max_locals, max_stack) ==
    [class_name |-> class_name, code |-> code,
     max_locals |-> max_locals, max_stack |-> max_stack]

TopCalls ==
    { Call(<<"M">>, <<ICONST_0 + 1, IRETURN>>, 0, 1),
      Call(<<"M">>, <<ICONST_0 + 1, ICONST_0 + 2, IADD, IRETURN>>, 0, 1),
      Call(<<"M">>, <<ICONST_5, ISTORE_0, ILOAD_0, IRETURN>>, 1, 1),
      Call(<<"M">>, <<ICONST_0 + 1, ICONST_0, IDIV, IRETURN>>, 0, 2),
      Call(<<"M">>, <<BIPUSH, 10, BIPUSH, 20, INVOKESTATIC, 0, 7, IRETURN>>, 0, 2),
      Call(<<"M">>, <<ICONST_0 + 1, ICONST_0 + 2, INVOKESTATIC, 0, 7>>, 0, 2),
      Call(<<"M">>, <<ICONST_5, ISTORE_0, ICONST_0 + 3, ICONST_0 + 1, ICONST_0 + 2,
                      INVOKESTATIC, 0, 7, IADD, IRETURN>>, 1, 3),
      Call(<<"M">>, <<ICONST_M1, INVOKESTATIC, 0, 7, RETURN>>, 0, 2),
      Call(<<"M">>, <<INVOKESTATIC, 0, 27, RETURN>>, 0, 0),
      Call(<<"M">>, <<INVOKESTATIC, 0, 30, RETURN>>, 0, 0),
      Call(<<"M">>, <<ICONST_0 + 3, INVOKESTATIC, 0, 34, IRETURN>>, 0, 1),
      Call(<<"M">>, <<INVOKESTATIC, 0, 16, RETURN>>, 0, 0),
      Call(<<"M">>, <<INVOKESTATIC, 0, 39, RETURN>>, 0, 0),
      Call(<<"M">>, <<INVOKESTATIC, 0, 13, RETURN>>, 0, 0),
      Call(<<"U">>, <<ICONST_0, INVOKESTATIC, 0, 7, RETURN>>, 0, 1),
      Call(<<"M">>, <<NOP>>, 0, 0),
      Call(<<"M">>, <<GOTO, 255, 253>>, 0, 0),
      Call(<<"M">>, <<GOTO, 0, 9>>, 0, 0),
      Call(<<"M">>, <<GOTO, 0, 3, GOTO, 0, 0>>, 0, 0),
      Call(<<"M">>, <<OP_NEW, 0, 2, DUP, ASTORE_0, GETSTATIC, 0, 0, ASTORE_0 + 1,
                      ALOAD_0, ALOAD, 1, RETURN>>, 2, 2),
      Call(<<"M">>, <<OP_NEW, 0, 2, DUP, ICONST_0 + 4, PUTFIELD, 0, 20,
                      GETFIELD, 0, 20, IRETURN>>, 0, 3),
      Call(<<"M">>, <<OP_NEW, 0, 2, GETFIELD, 0, 20, IRETURN>>, 0, 1),
      Call(<<"M">>, <<OP_NEW, 0, 2, ASTORE_0, OP_NEW, 0, 2, ASTORE_0 + 1,
                      ALOAD_0, ICONST_0 + 4, PUTFIELD, 0, 20,
                      ALOAD_0 + 1, ICONST_0 + 2, PUTFIELD, 0, 20,
                      ALOAD_0, ICONST_0 + 3, PUTFIELD, 0, 42,
                      ALOAD_0, ICONST_5, PUTFIELD, 0, 20,
                      ALOAD_0, GETFIELD, 0, 20, ISTORE_0,
                      ALOAD_0 + 1, GETFIELD, 0, 42, IRETURN>>, 2, 2),
      Call(<<"M">>, <<OP_NEW, 0, 2, ICONST_0 + 2, INVOKESPECIAL, 0, 36, RETURN>>, 0, 2),
      Call(<<"M">>, <<BIPUSH, 10, BIPUSH, 20, INVOKESTATIC, 0, 45, IADD, IRETURN>>, 0, 2),
      Call(<<"M">>, <<ICONST_0 + 1, ISTORE_0, ICONST_0 + 1, ICONST_0 + 2,
                      INVOKESPECIAL, 0, 45, ISUB, IRETURN>>, 1, 2),
      Call(<<"M">>, <<ICONST_0 + 1, ICONST_0 + 2, ICONST_0 + 3,
                      INVOKESPECIAL, 0, 16, RETURN>>, 0, 3),
      Call(<<"M">>, <<ICONST_0 + 1, INVOKESPECIAL, 0, 39, RETURN>>, 0, 1),
      Call(<<"M">>, <<ICONST_0 + 1, ICONST_0 + 2, INVOKESTATIC, 0, 16, RETURN>>, 0, 2),
      Call(<<"M">>, <<ICONST_0 + 1, INVOKESTATIC, 0, 39, RETURN>>, 0, 1),
      Call(<<"M">>, <<OP_NEW, 0, 2, INVOKESPECIAL, 0, 13, RETURN>>, 0, 1),
      Call(<<"M">>, <<GETSTATIC, 0, 0, SIPUSH, 1, 0, INVOKEVIRTUAL, 0, 24, RETURN>>, 0, 2),
      Call(<<"M">>, <<INVOKEVIRTUAL, 0, 7>>, 0, 0),
      Call(<<"M">>, <<GETSTATIC, 0, 0, INVOKEVIRTUAL, 0, 49, RETURN>>, 0, 1),
      Call(<<"M">>, <<ICONST_0 + 3, GETSTATIC, 0, 0, GETSTATIC, 0, 0,
                      INVOKEVIRTUAL, 0, 24, IRETURN>>, 0, 3),
      Call(<<"M">>, <<GETSTATIC, 0, 0, ICONST_0 + 1, ICONST_0 + 2,
                      INVOKEVIRTUAL, 0, 47, RETURN>>, 0, 3),
      Call(<<"M">>, <<194>>, 0, 0),
      Call(<<"M">>, <<ICONST_0, IFEQ, 0, 4, NOP, ICONST_0 + 1, IRETURN>>, 0, 1),
      Call(<<"M">>, <<ICONST_0 + 1, ICONST_0 + 2, IF_ICMPLT, 0, 4, NOP,
                      ICONST_0 + 3, ICONST_0 + 2, ISUB, ICONST_0 + 3, IMUL, IRETURN>>, 0, 2),
      Call(<<"M">>, <<ICONST_0 + 2, ISTORE_0, ILOAD, 0, IRETURN>>, 1, 1),
      Call(<<"M">>, <<ILOAD_0 + 1, IRETURN>>, 1, 1),
      Call(<<"M">>, <<ICONST_0 + 4, ISTORE_0 + 1, RETURN>>, 1, 1),
      Call(<<"M">>, <<ICONST_0 + 4, ISTORE_0, ICONST_0 + 3, ASTORE_0 + 2, ILOAD, 2,
                      RETURN>>, 2, 1),
      Call(<<"M">>, <<ICONST_5, ISTORE_0 + 1, ALOAD, 1, ALOAD_0 + 3, RETURN>>, 3, 1),
      Call(<<"M">>, <<BIPUSH>>, 0, 1),
      Call(<<"M">>, <<BIPUSH, 249, ICONST_0 + 2, IDIV, IRETURN>>, 0, 2),
      Call(<<"M">>, <<SIPUSH, 128, 0, SIPUSH, 128, 0, IMUL, ICONST_0 + 2, IMUL,
                      ICONST_M1, IDIV, IRETURN>>, 0, 2),
      Call(<<"M">>, <<NOP, ICONST_0 + 1, IFNE, 255, 254, RETURN>>, 0, 1),
      Call(<<"M">>, <<ICONST_0 + 1, ICONST_0 + 1, IF_ICMPEQ, 255, 252, RETURN>>, 0, 2) }
    \cup { Call(<<"M">>, <<ICONST_5, ISTORE_0, ICONST_0 + 3, ICONST_0 + v, op, 0, 4,
                           NOP, RETURN>>, 1, 2) :
              v \in -1..1, op \in IFEQ..IFLE }
    \cup { Call(<<"M">>, <<ICONST_5, ISTORE_0, ICONST_0 + 3, ICONST_0 + v[1],
                           ICONST_0 + v[2], op, 0, 4, NOP, RETURN>>, 1, 3) :
              v \in {<<1, 2>>, <<2, 1>>, <<2, 2>>}, op \in IF_ICMPEQ..IF_ICMPLE }
    \cup { Call(<<"M">>, <<ICONST_0 + 1, ISTORE_0, ICONST_0 + 2, b, RETURN>>, 1, 1) :
              b \in OtherOpcodes }

\* ------------------------------------------------------------------ actions

Cur ==
    [ frames |-> frames, pc |-> pc, objects |-> objects, free_list |-> free_list,
      classes |-> classes, stdout |-> stdout, status |-> status, error |-> error,
      error_args |-> error_args, result |-> result ]

\* The model's bounds on the structures a program can grow without limit.
WithinBounds(n) ==
    /\ Len(n.frames) <= MaxFrames
    /\ Len(n.objects) <= MaxObjects
    /\ \A k \in 1..Len(n.frames) : Len(n.frames[k].operand_stack) <= MaxOperands

\* How the frame on top of a grown stack was pushed.
CallRecord(n) ==
    [invoke_pc |-> pc, caller_stack |-> n.frames[Len(frames)].operand_stack]

Install(n) ==
    /\ WithinBounds(n)
    /\ frames' = n.frames
    /\ pc' = n.pc
    /\ objects' = n.objects
    /\ free_list' = n.free_list
    /\ classes' = n.classes
    /\ stdout' = n.stdout
    /\ status' = n.status
    /\ error' = n.error
    /\ error_args' = n.error_args
    /\ result' = n.result
    /\ calls' = IF Len(n.frames) = Len(frames) + 1 THEN Append(calls, Some(CallRecord(n)))
                ELSE IF Len(n.frames) = Len(frames) - 1 THEN Front(calls)
                ELSE calls
    /\ UNCHANGED <<runs, probe>>

\* The bounds check with `>` for `>=`.
pc_past_end(p, code) == p > Len(code)

\* `if pc >= code.len()` of the main loop
pc_out_of_bounds(p, code) == UGe(p, Len(code))

\* code[pc]; -1 stands for the panic of an index outside the bytecode, which
\* the bounds check of the main loop rules out.
opcode_at(code, p) == IF p >= 0 /\ p < Len(code) THEN code[p + 1] ELSE -1

Opcode == opcode_at(Last(frames).code, pc)

\* An iteration of the main loop that passes the bounds check and reads the
\* opcode at pc.
Fetching ==
    /\ status = "running"
    /\ frames # <<>>
    /\ ~pc_out_of_bounds(pc, Last(frames).code)
    /\ fetched' = <<pc, Len(Last(frames).code)>>

\* execute_method_with_class up to the main loop.
Execute(c) ==
    /\ status \in {"idle", "returned", "failed"}
    /\ runs < MaxRuns
    /\ Len(frames) < MaxFrames
    /\ runs' = runs + 1
    /\ frames' = Append(frames, new_with_context(c.max_locals, c.max_stack,
                                                 c.class_name, c.code, None))
    /\ pc' = 0
    /\ status' = "running"
    /\ error' = ""
    /\ error_args' = <<>>
    /\ result' = None
    /\ calls' = Append(calls, None)
    /\ UNCHANGED <<objects, free_list, classes, stdout, fetched, probe>>

PcOutOfBounds ==
    /\ status = "running"
    /\ frames # <<>>
    /\ pc_out_of_bounds(pc, Last(frames).code)
    /\ Install(fail_with(Cur, "PcOutOfBounds", <<pc, Len(Last(frames).code)>>))
    /\ UNCHANGED fetched

Nop == Fetching /\ Opcode = NOP /\ Install(exec_nop(Cur))
New == Fetching /\ Opcode = OP_NEW /\ Install(exec_new(Cur))
Putfield == Fetching /\ Opcode = PUTFIELD /\ Install(exec_putfield(Cur))
Getfield == Fetching /\ Opcode = GETFIELD /\ Install(exec_getfield(Cur))
Invokespecial == Fetching /\ Opcode = INVOKESPECIAL /\ Install(exec_invokespecial(Cur))
Dup == Fetching /\ Opcode = DUP /\ Install(exec_dup(Cur))
Iconst == Fetching /\ Opcode \in ICONST_M1..ICONST_5 /\ Install(exec_iconst(Cur))
Bipush == Fetching /\ Opcode = BIPUSH /\ Install(exec_bipush(Cur))
Sipush == Fetching /\ Opcode = SIPUSH /\ Install(exec_sipush(Cur))
Load == Fetching /\ Opcode \in {ALOAD, ILOAD} /\ Install(exec_load(Cur))
AloadN == Fetching /\ Opcode \in ALOAD_0..ALOAD_3 /\ Install(exec_aload_n(Cur))
IloadN == Fetching /\ Opcode \in ILOAD_0..ILOAD_3 /\ Install(exec_iload_n(Cur))
AstoreN == Fetching /\ Opcode \in ASTORE_0..ASTORE_3 /\ Install(exec_astore_n(Cur))
IstoreN == Fetching /\ Opcode \in ISTORE_0..ISTORE_3 /\ Install(exec_istore_n(Cur))
Iadd == Fetching /\ Opcode = IADD /\ \E checked \in BOOLEAN : Install(exec_iadd(Cur, checked))
Isub == Fetching /\ Opcode = ISUB /\ \E checked \in BOOLEAN : Install(exec_isub(Cur, checked))
Imul == Fetching /\ Opcode = IMUL /\ \E checked \in BOOLEAN : Install(exec_imul(Cur, checked))
Idiv == Fetching /\ Opcode = IDIV /\ Install(exec_idiv(Cur))
If == Fetching /\ Opcode \in IFEQ..IFLE /\ Install(exec_if(Cur))
IfIcmp == Fetching /\ Opcode \in IF_ICMPEQ..IF_ICMPLE /\ Install(exec_if_icmp(Cur))
Goto == Fetching /\ Opcode = GOTO /\ Install(exec_goto(Cur))
Invokestatic == Fetching /\ Opcode = INVOKESTATIC /\ Install(exec_invokestatic(Cur))
Getstatic == Fetching /\ Opcode = GETSTATIC /\ Install(exec_getstatic(Cur))
Invokevirtual == Fetching /\ Opcode = INVOKEVIRTUAL /\ Install(exec_invokevirtual(Cur))
Ireturn == Fetching /\ Opcode = IRETURN /\ Install(exec_ireturn(Cur))
Return == Fetching /\ Opcode = RETURN /\ Install(exec_return(Cur))

Unknown ==
    /\ Fetching
    /\ Opcode \notin Implemented
    /\ Install(IF Opcode = -1 THEN panic(Cur) ELSE exec_unknown(Cur))

Init ==
    /\ frames = <<>>
    /\ pc = 0
    /\ objects = <<>>
    /\ free_list = <<>>
    /\ classes = load_class(load_class(EmptyMap, FileM).classes, FileP).classes
    /\ stdout = <<>>
    /\ status = "idle"
    /\ error = ""
    /\ error_args = <<>>
    /\ result = None
    /\ runs = 0
    /\ calls = <<>>
    /\ fetched = <<>>
    /\ probe = <<>>

Next ==
    \/ \E c \in TopCalls : Execute(c)
    \/ PcOutOfBounds
    \/ Nop \/ New \/ Putfield \/ Getfield \/ Invokespecial \/ Dup
    \/ Iconst \/ Bipush \/ Sipush \/ Load \/ AloadN \/ IloadN \/ AstoreN \/ IstoreN
    \/ Iadd \/ Isub \/ Imul \/ Idiv \/ If \/ IfIcmp \/ Goto
    \/ Invokestatic \/ Getstatic \/ Invokevirtual \/ Ireturn \/ Return
    \/ Unknown

Spec == Init /\ [][Next]_vars

\* ------------------------------------------------- properties of the interpreter

\* The main loop is about to dispatch opcode op of the top frame.
AtOpcode(op) ==
    /\ status = "running"
    /\ frames # <<>>
    /\ pc >= 0
    /\ pc < Len(Last(frames).code)
    /\ Last(frames).code[pc + 1] = op

\* The frames below the top one.
Callers(fs) == SubSeq(fs, 1, Len(fs) - 1)

C1_Case ==
    /\ AtOpcode(IRETURN)
    /\ IsSome(Last(calls))
    /\ Last(frames).operand_stack # <<>>

\* C1: when ireturn executes in a frame that an invoke instruction pushed, the
\* frame is discarded, PC becomes the PC of the invoke + 3, and the caller's
\* operand stack is its stack right after the arguments were popped with the
\* returned value on top; nothing else on the frame stack changes.
C1_IreturnRestoresCaller ==
    [][C1_Case =>
         /\ status' = "running"
         /\ pc' = Unwrap(Last(calls)).invoke_pc + 3
         /\ Len(frames') = Len(frames) - 1
         /\ Callers(frames') = Callers(Callers(frames))
         /\ Last(frames') =
                [frames[Len(frames) - 1] EXCEPT !.operand_stack =
                    Append(Unwrap(Last(calls)).caller_stack,
                           Last(Last(frames).operand_stack))]
         /\ Len(Last(frames').operand_stack) =
                Len(Unwrap(Last(calls)).caller_stack) + 1]_vars

\* sum(10, 20) has just returned 30 to its caller, whose stack was empty after
\* the two arguments were popped by the invokestatic at PC 4.
C1_Witness ==
    /\ status = "running"
    /\ Len(frames) = 1
    /\ pc = 7
    /\ Last(frames).code = <<BIPUSH, 10, BIPUSH, 20, INVOKESTATIC, 0, 7, IRETURN>>
    /\ Last(frames).operand_stack = <<IntV(30)>>

\* The method an invokestatic at PC refers to.
InvokeTarget ==
    resolve_method_ref(classes[Last(frames).class_name],
                       u16_from_be_bytes(Last(frames).code[pc + 2],
                                         Last(frames).code[pc + 3])).val

TargetMethod ==
    classes[InvokeTarget.class_name].methods[
        member_key(InvokeTarget.name, InvokeTarget.descriptor)]

\* invokestatic on a method of a loaded non-system class, with its arguments on
\* the operand stack and room for them in the callee's locals.
C2_Case ==
    /\ AtOpcode(INVOKESTATIC)
    /\ pc + 2 < Len(Last(frames).code)
    /\ MapHas(classes, Last(frames).class_name)
    /\ resolve_method_ref(classes[Last(frames).class_name],
                          u16_from_be_bytes(Last(frames).code[pc + 2],
                                            Last(frames).code[pc + 3])).ok
    /\ ~starts_with(InvokeTarget.class_name, JAVA_PREFIX)
    /\ MapHas(classes, InvokeTarget.class_name)
    /\ MapHas(classes[InvokeTarget.class_name].methods,
              member_key(InvokeTarget.name, InvokeTarget.descriptor))
    /\ parse_arg_count(TargetMethod.descriptor) <= Len(Last(frames).operand_stack)
    /\ parse_arg_count(TargetMethod.descriptor) <= TargetMethod.max_locals

\* C2: invokestatic on a method of a loaded non-system class with n parameters
\* is one step that pops exactly n values from the caller, pushes one frame
\* with return_address = PC + 3, locals 0..n-1 = the popped values in push
\* order, the other locals Int(0) and an empty operand stack, and sets PC to 0.
C2_InvokestaticBuildsFrame ==
    [][C2_Case =>
         LET n == parse_arg_count(TargetMethod.descriptor)
             caller == Last(frames)
             callee == Last(frames')
         IN
         /\ status' = "running"
         /\ pc' = 0
         /\ Len(frames') = Len(frames) + 1
         /\ Callers(Callers(frames')) = Callers(frames)
         /\ frames'[Len(frames)] =
                [caller EXCEPT !.operand_stack = SubSeq(@, 1, Len(@) - n)]
         /\ callee.return_address = Some(pc + 3)
         /\ callee.operand_stack = <<>>
         /\ callee.code = TargetMethod.code
         /\ Len(callee.local_vars) = TargetMethod.max_locals
         /\ \A k \in 1..Len(callee.local_vars) :
                callee.local_vars[k] =
                    IF k <= n
                    THEN caller.operand_stack[Len(caller.operand_stack) - n + k]
                    ELSE IntV(0)]_vars

\* sum(10, 20) has just been invoked from PC 4: 10 is in local 0, 20 in local 1.
C2_Witness ==
    /\ status = "running"
    /\ Len(frames) = 2
    /\ pc = 0
    /\ frames[1].operand_stack = <<>>
    /\ frames[2].return_address = Some(7)
    /\ frames[2].local_vars = <<IntV(10), IntV(20)>>
    /\ frames[2].operand_stack = <<>>

\* C3: any failure unwinds the entire invocation: when execute_method_with_class
\* has returned an error, no frame remains on the thread's frame stack.
C3_FailureUnwinds == status = "failed" => frames = <<>>

C4_Ireturn == AtOpcode(IRETURN) /\ Last(calls) = None /\ Last(frames).operand_stack # <<>>
C4_Return == AtOpcode(RETURN) /\ Last(calls) = None

\* C4: when the initial frame of an execute_method_with_class call executes
\* ireturn the call returns Some(v), v the top of that frame's operand stack;
\* when it executes return the call returns None; the frame stack is empty
\* afterwards.
C4_TopLevelReturn ==
    [][/\ C4_Ireturn =>
            /\ status' = "returned"
            /\ result' = Some(Last(Last(frames).operand_stack))
            /\ frames' = <<>>
       /\ C4_Return =>
            /\ status' = "returned"
            /\ result' = None
            /\ frames' = <<>>]_vars

\* C5: at every instruction boundary the operand stack depth of every frame on
\* the frame stack is at most the frame's max_stack.
C5_DepthWithinMaxStack ==
    \A k \in 1..Len(frames) : Len(frames[k].operand_stack) <= frames[k].max_stack

C6_InRange == pc >= 0 /\ pc < Len(Last(frames).code)

\* C6: an opcode is fetched only at 0 <= PC < len(code) of the top frame; when
\* PC is outside that range at an instruction boundary the call fails with
\* PcOutOfBounds, changing nothing else, and nothing further executes until
\* the next execute_method_with_class call.
C6_FetchOnlyInBounds ==
    [][/\ fetched' # fetched =>
            C6_InRange /\ fetched' = <<pc, Len(Last(frames).code)>>
       /\ (status = "running" /\ frames # <<>> /\ ~C6_InRange) =>
            /\ status' = "failed"
            /\ error' = "PcOutOfBounds"
            /\ UNCHANGED <<frames, pc, objects, free_list, classes, stdout,
                           result, fetched>>
       /\ status = "failed" => runs' = runs + 1]_vars

\* sum(1, 2) has returned 3 to a caller whose invokestatic was its last
\* instruction: the return address is the length of the caller's code.
C6_Witness ==
    /\ status = "failed"
    /\ error = "PcOutOfBounds"
    /\ Len(frames) = 1
    /\ pc = Len(Last(frames).code)
    /\ Last(frames).operand_stack = <<IntV(3)>>

\* The Reference values in the locals and operand stacks of the frames.
HeldReferences ==
    UNION { { frames[k].local_vars[j].r : j \in
                { i \in 1..Len(frames[k].local_vars) :
                    frames[k].local_vars[i].tag = "Ref" } }
            \cup
            { frames[k].operand_stack[j].r : j \in
                { i \in 1..Len(frames[k].operand_stack) :
                    frames[k].operand_stack[i].tag = "Ref" } }
          : k \in 1..Len(frames) }

\* r is null or the index of a heap slot that holds an object.
NullOrAllocated(r) ==
    \/ r = None
    \/ /\ Unwrap(r) >= 0
       /\ Unwrap(r) < Len(objects)
       /\ IsSome(objects[Unwrap(r) + 1])

\* C7 as stated: every Reference held in a frame is null or the index of a
\* heap slot that holds an allocated object, those pushed by getstatic included.
C7_RefsNullOrAllocated == \A r \in HeldReferences : NullOrAllocated(r)

\* C7: every Reference held in the locals or the operand stack of a frame is
\* null, the index of a heap slot that holds an allocated object, or the handle
\* 0xFFFF that getstatic pushes, behind which there is no heap object.
C7_RefsNullAllocatedOrSentinel ==
    \A r \in HeldReferences : NullOrAllocated(r) \/ r = Some(SYSTEM_OUT)

\* A frame holds the reference new returned and the handle getstatic pushed.
C7_Witness ==
    /\ frames # <<>>
    /\ Last(frames).operand_stack = <<Reference(Some(0)), Reference(Some(SYSTEM_OUT))>>
    /\ IsSome(objects[1])

\* ------------------------------------------------------------ the metaspace
\* A second specification: load_class and the three resolvers called in any
\* order on a metaspace that starts empty.  probe holds the call history:
\* n calls so far, the last call, and the first successful result per
\* (resolver, class, index).

MaxMetaCalls == 4

\* A file with the name of M and other contents.
FileM_other ==
    [FileM EXCEPT !.constant_pool[5] = Some(Utf8(<<"t", "o", "t">>)),
                  !.access_flags = 1, !.fields = <<>>,
                  \* <init>()V twice: with a body, then with code_length 0
                  !.methods =
                      <<[access_flags |-> 1, name_index |-> 10,
                         descriptor_index |-> 11,
                         attributes |-> CodeAttr(0, 1, <<RETURN>>)],
                        [access_flags |-> 1, name_index |-> 10,
                         descriptor_index |-> 11,
                         attributes |-> CodeAttr(0, 1, <<>>)]>>]

\* U: a Long with the empty slot after it, a Class entry whose name index is
\* not a Utf8, and an interface method reference.
PoolOfU ==
    << None,
       Some(Utf8(<<"U">>)),                               \* 1
       Some(Class(1)),                                    \* 2  U
       Some(Long(1)),                                     \* 3
       None,                                              \* 4
       Some(Class(2)),                                    \* 5  named by a Class
       Some(Utf8(<<"m">>)),                               \* 6
       Some(Utf8(<<"(", ")", "V">>)),                     \* 7
       Some(NameAndType(6, 7)),                           \* 8
       Some(InterfaceMethodRef(2, 8)),                    \* 9  U.m:()V
       Some(Utf8(<<"C", "o", "d", "e">>)),                \* 10
       Some(Utf8(<<"n">>)),                               \* 11
       Some(MethodRef(2, 6)) >>                           \* 12  U.? named by a Utf8

\* abstract void m(), without attributes
MethodOfU_m ==
    [access_flags |-> 1025, name_index |-> 6, descriptor_index |-> 7,
     attributes |-> <<>>]

\* native void n(), carrying a Code attribute all the same
MethodOfU_n ==
    [access_flags |-> 257, name_index |-> 11, descriptor_index |-> 7,
     attributes |-> <<[name_index |-> 10,
                       info |-> CodeInfo(1, 1, <<RETURN>>)]>>]

FileU ==
    [ constant_pool |-> PoolOfU,
      access_flags |-> 33, this_class |-> 2, super_class |-> 0,
      interfaces |-> <<>>, fields |-> <<>>,
      methods |-> <<MethodOfU_m, MethodOfU_n>> ]

\* U with n() neither native nor abstract: its one attribute is not named
\* "Code".
FileU_nocode ==
    [FileU EXCEPT !.methods =
        <<MethodOfU_m,
          [access_flags |-> 1, name_index |-> 11, descriptor_index |-> 7,
           attributes |-> <<[name_index |-> 6, info |-> <<>>]>>]>>]

\* this_class is not a Class entry.
FileBroken == [FileU EXCEPT !.this_class = 1]

ClassFiles == <<FileM, FileM_other, FileU, FileBroken, FileU_nocode>>

\* Constant-pool indices.  Of M: slot 0, a Class (2, 9), Utf8 entries (4, 5),
\* a method reference (7), a field reference (20) and one past the pool (50).
\* Of U: slot 0, a Class (2), the empty slot after the Long (4), the Class
\* named by a Class (5), a Utf8 (7), the interface method reference (9), the
\* method reference whose name-and-type index is a Utf8 (12), and indices past
\* the pool (20, 50).  12 is a NameAndType of M.
ResolveIndices == {0, 2, 4, 5, 7, 9, 12, 20, 50}

Resolvers == {"resolve_class_ref", "resolve_method_ref", "resolve_field_ref"}

resolve(op, cm, index) ==
    CASE op = "resolve_class_ref"  -> resolve_class_ref(cm, index)
      [] op = "resolve_method_ref" -> resolve_method_ref(cm, index)
      [] op = "resolve_field_ref"  -> resolve_field_ref(cm, index)

\* The runtime-pool map a resolver looks its index up in.
cache_of(op, cm) ==
    CASE op = "resolve_class_ref"  -> cm.runtime_pool.resolved_classes
      [] op = "resolve_method_ref" -> cm.runtime_pool.resolved_methods
      [] op = "resolve_field_ref"  -> cm.runtime_pool.resolved_fields

\* The indices i whose raw constant-pool entry a call reads to resolve i: the
\* index of the call on a cache miss, and the class index of a member
\* reference when resolve_class_ref misses its cache in turn.
raw_reads(op, cm, index) ==
    IF MapHas(cache_of(op, cm), index) THEN {}
    ELSE
    {index} \cup
    (IF op = "resolve_class_ref" THEN {}
     ELSE
     Let(raw_entry(cm, index), LAMBDA e :
     IF e.ok /\ e.val.tag \in (IF op = "resolve_field_ref" THEN {"FieldRef"}
                               ELSE {"MethodRef", "InterfaceMethodRef"})
             /\ ~MapHas(cm.runtime_pool.resolved_classes, e.val.class_index)
     THEN {e.val.class_index}
     ELSE {}))

CallRecordOf(op, class_name, index, ok, val, err, raw, later) ==
    [op |-> op, class |-> class_name, index |-> index, ok |-> ok, val |-> val,
     err |-> err, raw |-> raw, later |-> later]

MetaStart ==
    /\ frames = <<>>
    /\ pc = 0
    /\ objects = <<>>
    /\ free_list = <<>>
    /\ classes = EmptyMap
    /\ stdout = <<>>
    /\ status = "idle"
    /\ error = ""
    /\ error_args = <<>>
    /\ result = None
    /\ runs = 0
    /\ calls = <<>>
    /\ fetched = <<>>
    /\ probe = [n |-> 0, first |-> EmptyMap, reads |-> {}, reread |-> {},
                last |-> CallRecordOf("none", <<>>, 0, FALSE, None, "", {}, FALSE)]

LoadClass(k) ==
    /\ probe.n < MaxMetaCalls
    /\ LET r == load_class(classes, ClassFiles[k]) IN
       /\ classes' = r.classes
       /\ probe' = [probe EXCEPT !.n = @ + 1,
                                 !.last = CallRecordOf("load_class", <<>>, k, r.ok,
                                                       None, r.err, {}, FALSE)]
    /\ UNCHANGED <<frames, pc, objects, free_list, stdout, status, result,
                   error, error_args, runs, calls, fetched>>

Resolve(op, class_name, index) ==
    /\ probe.n < MaxMetaCalls
    /\ MapHas(classes, class_name)
    /\ LET r == resolve(op, classes[class_name], index)
           key == <<op, class_name, index>>
           raw == {<<class_name, i>> : i \in raw_reads(op, classes[class_name], index)}
       IN
       /\ classes' = [classes EXCEPT ![class_name] = r.cm]
       /\ probe' = [n |-> probe.n + 1,
                    first |-> IF r.ok /\ ~MapHas(probe.first, key)
                              THEN MapPut(probe.first, key, r.val)
                              ELSE probe.first,
                    reads |-> probe.reads \cup raw,
                    reread |-> probe.reread \cup (probe.reads \cap raw),
                    last |-> CallRecordOf(op, class_name, index, r.ok,
                                          IF r.ok THEN Some(r.val) ELSE None,
                                          IF r.ok THEN "" ELSE r.err, raw,
                                          MapHas(probe.first, key))]
    /\ UNCHANGED <<frames, pc, objects, free_list, stdout, status, result,
                   error, error_args, runs, calls, fetched>>

ResolveClassRef == \E c \in DOMAIN classes, i \in ResolveIndices :
                       Resolve("resolve_class_ref", c, i)
ResolveMethodRef == \E c \in DOMAIN classes, i \in ResolveIndices :
                        Resolve("resolve_method_ref", c, i)
ResolveFieldRef == \E c \in DOMAIN classes, i \in ResolveIndices :
                       Resolve("resolve_field_ref", c, i)

MetaNext ==
    \/ \E k \in DOMAIN ClassFiles : LoadClass(k)
    \/ ResolveClassRef
    \/ ResolveMethodRef
    \/ ResolveFieldRef

SpecMeta == MetaStart /\ [][MetaNext]_vars

\* The call just made is load_class on a file whose class name is present.
C8_Case ==
    /\ probe'.n # probe.n
    /\ probe'.last.op = "load_class"
    /\ LET file == ClassFiles[probe'.last.index]
           name == get_class_name(file.constant_pool, file.this_class)
       IN name.ok /\ MapHas(classes, name.val)

\* C8: load_class on a file whose class name is already present returns
\* success and leaves the whole metaspace as it was (loaded classes, their
\* methods, fields, constant pools, states and memoized resolutions), even
\* when the file differs from the one loaded first.
C8_LoadClassIdempotent ==
    [][C8_Case => probe'.last.ok /\ classes' = classes]_vars

\* M was loaded from FileM, a method reference was memoized, and the last call
\* was load_class on the other file named M.
C8_Witness ==
    /\ probe.last.op = "load_class"
    /\ probe.last.index = 2
    /\ probe.last.ok
    /\ MapHas(classes, <<"M">>)
    /\ classes[<<"M">>].constant_pool = PoolOfM
    /\ MapHas(classes[<<"M">>].runtime_pool.resolved_methods, 7)

\* cm as loaded, with nothing memoized.
Uncached(cm) == [cm EXCEPT !.runtime_pool = RuntimeConstantPool_new]

\* Every memoized entry is what a resolution of the constant pool that
\* consults no cache produces.
CacheCoherent ==
    \A c \in DOMAIN classes :
        LET cm == classes[c] IN
        /\ \A i \in DOMAIN cm.runtime_pool.resolved_classes :
               LET f == resolve_class_ref(Uncached(cm), i) IN
               f.ok /\ f.val = cm.runtime_pool.resolved_classes[i]
        /\ \A i \in DOMAIN cm.runtime_pool.resolved_methods :
               LET f == resolve_method_ref(Uncached(cm), i) IN
               f.ok /\ f.val = cm.runtime_pool.resolved_methods[i]
        /\ \A i \in DOMAIN cm.runtime_pool.resolved_fields :
               LET f == resolve_field_ref(Uncached(cm), i) IN
               f.ok /\ f.val = cm.runtime_pool.resolved_fields[i]

\* The call just made is a resolution that had succeeded before at its index.
C9_Case ==
    /\ probe'.n # probe.n
    /\ probe'.last.op \in Resolvers
    /\ MapHas(probe.first,
              <<probe'.last.op, probe'.last.class, probe'.last.index>>)

\* C9: once a resolver has succeeded at index i of class C, every later call
\* of it at i returns the value the first call returned, which is the value a
\* fresh, uncached resolution of C's constant pool at i produces, and changes
\* no entry of C's runtime constant pool; every memoized entry equals the
\* fresh resolution of its index.
C9_ResolutionIdempotent ==
    /\ []CacheCoherent
    /\ [][C9_Case =>
            LET call == probe'.last
                fresh == resolve(call.op, Uncached(classes[call.class]), call.index)
            IN
            /\ call.ok
            /\ call.val = Some(probe.first[<<call.op, call.class, call.index>>])
            /\ fresh.ok
            /\ call.val = Some(fresh.val)
            /\ classes' = classes]_vars

\* resolve_method_ref at 7 of M succeeded a second time.
C9_Witness ==
    /\ probe.last.op = "resolve_method_ref"
    /\ probe.last.index = 7
    /\ probe.last.later
    /\ probe.last.ok
    /\ probe.last.val = Some([class_name |-> <<"M">>, name |-> <<"s", "u", "m">>,
                              descriptor |-> <<"(", "I", "I", ")", "I">>])

\* ------------------------------------------------- the constant-pool decoder
\* classfile/parser.rs: parse_constant_pool reading the byte sequence b from
\* offset pos, as the Cursor does.  A short read and an unknown tag both end
\* the parse with an error.

CONSTANT_UTF8 == 1
CONSTANT_INTEGER == 3
CONSTANT_FLOAT == 4
CONSTANT_LONG == 5
CONSTANT_DOUBLE == 6
CONSTANT_CLASS == 7
CONSTANT_STRING == 8
CONSTANT_FIELDREF == 9
CONSTANT_METHODREF == 10
CONSTANT_INTERFACE_METHODREF == 11
CONSTANT_NAME_AND_TYPE == 12
CONSTANT_METHOD_HANDLE == 15
CONSTANT_METHOD_TYPE == 16
CONSTANT_INVOKE_DYNAMIC == 18

Float(bits) == [tag |-> "Float", value |-> bits]
String(string_index) == [tag |-> "String", string_index |-> string_index]
MethodHandle(reference_kind, reference_index) ==
    [tag |-> "MethodHandle", reference_kind |-> reference_kind,
     reference_index |-> reference_index]
MethodType(descriptor_index) ==
    [tag |-> "MethodType", descriptor_index |-> descriptor_index]
InvokeDynamic(bootstrap_method_attr_index, name_and_type_index) ==
    [tag |-> "InvokeDynamic",
     bootstrap_method_attr_index |-> bootstrap_method_attr_index,
     name_and_type_index |-> name_and_type_index]

\* The characters of the code points 32..126 (the grave accent spelled out).
AsciiTable ==
    <<
       " ", "!", "\"", "#", "$", "%", "&", "'", "(", ")", "*", "+",
       ",", "-", ".", "/", "0", "1", "2", "3", "4", "5", "6", "7",
       "8", "9", ":", ";", "<", "=", ">", "?", "@", "A", "B", "C",
       "D", "E", "F", "G", "H", "I", "J", "K", "L", "M", "N", "O",
       "P", "Q", "R", "S", "T", "U", "V", "W", "X", "Y", "Z", "[",
       "\\", "]", "^", "_", "U+0060", "a", "b", "c", "d", "e", "f", "g",
       "h", "i", "j", "k", "l", "m", "n", "o", "p", "q", "r", "s",
       "t", "u", "v", "w", "x", "y", "z", "{", "|", "}", "~" >>

\* String::from_utf8 on buf.  A byte below 0x80 is the character of that code
\* point.  Of the bytes from 0x80 on only those that are invalid wherever they
\* stand (0xC0, 0xC1, 0xF5..0xFF) are decoded here, as the error they are; the
\* inputs hold no other byte above 0x7F and no control character ("U+00").
from_utf8(buf) ==
    IF \E k \in 1..Len(buf) : buf[k] >= 128
    THEN [ok |-> FALSE, err |-> "BadFormat"]
    ELSE [ok |-> TRUE,
          val |-> [k \in 1..Len(buf) |->
                      IF buf[k] >= 32 /\ buf[k] <= 126
                      THEN AsciiTable[buf[k] - 31] ELSE "U+00"]]

\* Whether n bytes can be read at pos.
can_read(b, pos, n) == pos + n <= Len(b)

\* read_i32::<BigEndian> at pos
i32_at(b, pos) ==
    (IF b[pos + 1] >= 128 THEN b[pos + 1] - 256 ELSE b[pos + 1]) * 16777216
        + b[pos + 2] * 65536 + b[pos + 3] * 256 + b[pos + 4]

Eof == [ok |-> FALSE, err |-> "BadFormat"]

\* An entry of n bytes at pos: entry once the n bytes are known to be there.
fixed_entry(b, pos, n, entry) ==
    IF ~can_read(b, pos, n) THEN Eof
    ELSE [ok |-> TRUE, entry |-> entry, pos |-> pos + n]

\* The arms of `match tag` that end in the common `pool.set(i, entry); i += 1`:
\* the entry read at pos, just past the tag byte.  A 32-bit float is kept as
\* its four bytes.
read_entry(b, pos, tag) ==
    CASE tag = CONSTANT_UTF8 ->
             IF ~can_read(b, pos, 2) THEN Eof
             ELSE IF ~can_read(b, pos + 2, u16_at(b, pos)) THEN Eof
             ELSE Let(from_utf8(SubSeq(b, pos + 3, pos + 2 + u16_at(b, pos))),
                      LAMBDA str :
                      IF ~str.ok THEN str
                      ELSE [ok |-> TRUE, entry |-> Utf8(str.val),
                            pos |-> pos + 2 + u16_at(b, pos)])
      [] tag = CONSTANT_INTEGER ->
             fixed_entry(b, pos, 4, Integer(i32_at(b, pos)))
      [] tag = CONSTANT_FLOAT ->
             fixed_entry(b, pos, 4, Float(SubSeq(b, pos + 1, pos + 4)))
      [] tag = CONSTANT_CLASS -> fixed_entry(b, pos, 2, Class(u16_at(b, pos)))
      [] tag = CONSTANT_STRING -> fixed_entry(b, pos, 2, String(u16_at(b, pos)))
      [] tag = CONSTANT_FIELDREF -> fixed_entry(b, pos, 4,
                 FieldRef(u16_at(b, pos), u16_at(b, pos + 2)))
      [] tag = CONSTANT_METHODREF -> fixed_entry(b, pos, 4,
                 MethodRef(u16_at(b, pos), u16_at(b, pos + 2)))
      [] tag = CONSTANT_INTERFACE_METHODREF -> fixed_entry(b, pos, 4,
                 InterfaceMethodRef(u16_at(b, pos), u16_at(b, pos + 2)))
      [] tag = CONSTANT_NAME_AND_TYPE -> fixed_entry(b, pos, 4,
                 NameAndType(u16_at(b, pos), u16_at(b, pos + 2)))
      [] tag = CONSTANT_METHOD_HANDLE ->
             fixed_entry(b, pos, 3, MethodHandle(b[pos + 1], u16_at(b, pos + 1)))
      [] tag = CONSTANT_METHOD_TYPE -> fixed_entry(b, pos, 2, MethodType(u16_at(b, pos)))
      [] tag = CONSTANT_INVOKE_DYNAMIC -> fixed_entry(b, pos, 4,
                 InvokeDynamic(u16_at(b, pos), u16_at(b, pos + 2)))
      [] OTHER -> [ok |-> FALSE, err |-> "BadFormat"]

\* The loop `while i < count` of parse_constant_pool from index i on.  A 64-bit
\* value is kept as its eight bytes.
RECURSIVE parse_entries(_, _, _, _, _)
parse_entries(b, pos, count, i, pool) ==
    IF ~(i < count) THEN [ok |-> TRUE, err |-> "", pool |-> pool, pos |-> pos]
    ELSE IF ~can_read(b, pos, 1) THEN [ok |-> FALSE, err |-> "BadFormat", pool |-> <<>>, pos |-> pos]
    ELSE IF b[pos + 1] = CONSTANT_LONG
    THEN IF ~can_read(b, pos + 1, 8)
         THEN [ok |-> FALSE, err |-> "BadFormat", pool |-> <<>>, pos |-> pos]
         ELSE parse_entries(b, pos + 9, count, i + 1,
                  ConstantPool_set(pool, i, Long(SubSeq(b, pos + 2, pos + 9))))
    ELSE IF b[pos + 1] = CONSTANT_DOUBLE
    THEN IF ~can_read(b, pos + 1, 8)
         THEN [ok |-> FALSE, err |-> "BadFormat", pool |-> <<>>, pos |-> pos]
         ELSE parse_entries(b, pos + 9, count, i + 1,
                  ConstantPool_set(pool, i, Double(SubSeq(b, pos + 2, pos + 9))))
    ELSE Let(read_entry(b, pos + 1, b[pos + 1]), LAMBDA e :
         IF ~e.ok THEN [ok |-> FALSE, err |-> e.err, pool |-> <<>>, pos |-> pos]
         ELSE parse_entries(b, e.pos, count, i + 1,
                            ConstantPool_set(pool, i, e.entry)))

parse_constant_pool(b, pos) ==
    IF ~can_read(b, pos, 2)
    THEN [ok |-> FALSE, err |-> "BadFormat", pool |-> <<>>, pos |-> pos]
    ELSE parse_entries(b, pos + 2, u16_at(b, pos), 1,
                       ConstantPool_new(u16_at(b, pos)))

\* ------------------------------------------------------ the class-file decoder

\* The four bytes of MAGIC (0xCAFEBABE), big-endian.
MAGIC == <<202, 254, 186, 190>>

\* The test on the first word of a buffer that ignores its second half.
magic_ok_first_half(b) == SubSeq(b, 1, 2) = SubSeq(MAGIC, 1, 2)

\* `magic != MAGIC` fails, on a buffer of at least four bytes.
magic_ok(b) == SubSeq(b, 1, 4) = MAGIC

\* parse_attribute at pos
parse_attribute(b, pos) ==
    IF ~can_read(b, pos, 6) THEN Eof
    ELSE IF ~can_read(b, pos + 6, u32_at(b, pos + 2)) THEN Eof
    ELSE [ok |-> TRUE,
          val |-> [name_index |-> u16_at(b, pos),
                   info |-> SubSeq(b, pos + 7, pos + 6 + u32_at(b, pos + 2))],
          pos |-> pos + 6 + u32_at(b, pos + 2)]

\* The loop of parse_attributes with n attributes to go.
RECURSIVE attribute_list(_, _, _, _)
attribute_list(b, pos, n, acc) ==
    IF n = 0 THEN [ok |-> TRUE, val |-> acc, pos |-> pos]
    ELSE Let(parse_attribute(b, pos), LAMBDA a :
         IF ~a.ok THEN a
         ELSE attribute_list(b, a.pos, n - 1, Append(acc, a.val)))

parse_attributes(b, pos) ==
    IF ~can_read(b, pos, 2) THEN Eof
    ELSE attribute_list(b, pos + 2, u16_at(b, pos), <<>>)

\* parse_field and parse_method at pos: three u16 and the attributes.
parse_method(b, pos) ==
    IF ~can_read(b, pos, 6) THEN Eof
    ELSE Let(parse_attributes(b, pos + 6), LAMBDA attributes :
         IF ~attributes.ok THEN attributes
         ELSE [ok |-> TRUE,
               val |-> [access_flags |-> u16_at(b, pos),
                        name_index |-> u16_at(b, pos + 2),
                        descriptor_index |-> u16_at(b, pos + 4),
                        attributes |-> attributes.val],
               pos |-> attributes.pos])

\* The loops of parser::parse_fields and parser::parse_methods with n members
\* to go.
RECURSIVE method_list(_, _, _, _)
method_list(b, pos, n, acc) ==
    IF n = 0 THEN [ok |-> TRUE, val |-> acc, pos |-> pos]
    ELSE Let(parse_method(b, pos), LAMBDA member :
         IF ~member.ok THEN member
         ELSE method_list(b, member.pos, n - 1, Append(acc, member.val)))

\* parser::parse_fields and parser::parse_methods: a count and the members.
parse_member_table(b, pos) ==
    IF ~can_read(b, pos, 2) THEN Eof
    ELSE method_list(b, pos + 2, u16_at(b, pos), <<>>)

parse_interfaces(b, pos) ==
    IF ~can_read(b, pos, 2) THEN Eof
    ELSE IF ~can_read(b, pos + 2, 2 * u16_at(b, pos)) THEN Eof
    ELSE [ok |-> TRUE,
          val |-> [k \in 1..u16_at(b, pos) |-> u16_at(b, pos + 2 * k)],
          pos |-> pos + 2 + 2 * u16_at(b, pos)]

NoClass(err) == [ok |-> FALSE, err |-> err, class |-> None]

\* parse_class_file over the buffer b: the ClassFile, or the error.
parse_class_file(b) ==
    IF ~can_read(b, 0, 4) THEN NoClass("BadFormat")
    ELSE IF ~magic_ok(b) THEN NoClass("BadFormat")
    ELSE IF ~can_read(b, 4, 4) THEN NoClass("BadFormat")
    ELSE
    Let(parse_constant_pool(b, 8), LAMBDA constant_pool :
    IF ~constant_pool.ok THEN NoClass(constant_pool.err)
    ELSE IF ~can_read(b, constant_pool.pos, 6) THEN NoClass("BadFormat")
    ELSE
    Let(parse_interfaces(b, constant_pool.pos + 6), LAMBDA interfaces :
    IF ~interfaces.ok THEN NoClass(interfaces.err)
    ELSE
    Let(parse_member_table(b, interfaces.pos), LAMBDA fields :
    IF ~fields.ok THEN NoClass(fields.err)
    ELSE
    Let(parse_member_table(b, fields.pos), LAMBDA methods :
    IF ~methods.ok THEN NoClass(methods.err)
    ELSE
    Let(parse_attributes(b, methods.pos), LAMBDA attributes :
    IF ~attributes.ok THEN NoClass(attributes.err)
    ELSE
    [ok |-> TRUE, err |-> "",
     class |-> Some([ constant_pool |-> constant_pool.pool,
                      access_flags |-> u16_at(b, constant_pool.pos),
                      this_class |-> u16_at(b, constant_pool.pos + 2),
                      super_class |-> u16_at(b, constant_pool.pos + 4),
                      interfaces |-> interfaces.val,
                      fields |-> fields.val,
                      methods |-> methods.val,
                      attributes |-> attributes.val ])])))))

\* A third specification: parse_constant_pool and parse_class_file applied to
\* one input.  probe holds the input and, once decoded, the result.

MaxEntries == 3

\* Encoded entries: Utf8 "a", Integer -2, Long 7, Double 2.0, Class #1,
\* MethodRef #2.#3, an unknown tag, and a Long cut short.
EntryEncodings ==
    { <<1, 0, 1, 97>>,
      <<3, 255, 255, 255, 254>>,
      <<5, 0, 0, 0, 0, 0, 0, 0, 7>>,
      <<6, 64, 0, 0, 0, 0, 0, 0, 0>>,
      <<7, 0, 1>>,
      <<10, 0, 2, 0, 3>>,
      <<2>>,
      <<5, 0, 0>> }

RECURSIVE concat(_)
concat(ss) == IF ss = <<>> THEN <<>> ELSE ss[1] \o concat(Tail(ss))

\* A declared count of at most MaxEntries + 1 followed by at most MaxEntries
\* encoded entries.
PoolInputs ==
    { <<0, count>> \o concat(es) :
        count \in 0..(MaxEntries + 1),
        es \in UNION { [1..n -> EntryEncodings] : n \in 0..MaxEntries } }

\* A class file in parts: the role of a part says what its bytes are.
Part(role, bytes) == [role |-> role, bytes |-> bytes]

\* class a: interface a, one field, one method with a Code attribute.
PartsOfA ==
    << Part("magic", MAGIC), Part("other", <<0, 0, 0, 52>>),
       Part("count", <<0, 4>>),
       Part("tag", <<CONSTANT_UTF8>>), Part("len", <<0, 1>>), Part("other", <<97>>),
       Part("tag", <<CONSTANT_CLASS>>), Part("other", <<0, 1>>),
       Part("tag", <<CONSTANT_UTF8>>), Part("len", <<0, 4>>),
       Part("other", <<67, 111, 100, 101>>),
       Part("other", <<0, 33, 0, 2, 0, 0>>),
       Part("count", <<0, 1>>), Part("other", <<0, 2>>),
       Part("count", <<0, 1>>), Part("other", <<0, 2, 0, 1, 0, 1>>),
       Part("count", <<0, 0>>),
       Part("count", <<0, 1>>), Part("other", <<0, 1, 0, 1, 0, 1>>),
       Part("count", <<0, 1>>), Part("other", <<0, 3>>),
       Part("len4", <<0, 0, 0, 13>>), Part("other", CodeInfo(1, 1, <<RETURN>>)),
       Part("count", <<0, 0>>) >>

\* A class file with an empty constant pool and empty tables.
PartsOfEmpty ==
    << Part("magic", MAGIC), Part("other", <<0, 0, 0, 52>>),
       Part("count", <<0, 1>>),
       Part("other", <<0, 33, 0, 0, 0, 0>>),
       Part("count", <<0, 0>>), Part("count", <<0, 0>>),
       Part("count", <<0, 0>>), Part("count", <<0, 0>>) >>

BytesOf(parts) == concat([k \in DOMAIN parts |-> parts[k].bytes])

\* What a part is replaced by to make the file malformed: another first word,
\* a tag that is none of the fourteen, a count or length that the buffer
\* cannot hold.
Replacements(role) ==
    CASE role = "magic" -> { <<202, 254, 186, 191>>, <<203, 254, 186, 190>>,
                             <<202, 254, 0, 0>>, <<0, 0, 0, 0>> }
      [] role = "tag"   -> { <<0>>, <<2>>, <<13>>, <<14>>, <<17>>, <<19>>,
                             <<20>>, <<255>> }
      [] role = "count" -> { <<1, 0>>, <<255, 255>> }
      [] role = "len"   -> { <<1, 0>>, <<255, 255>> }
      [] role = "len4"  -> { <<0, 0, 1, 0>>, <<0, 1, 0, 0>> }
      [] OTHER          -> {}

\* The well-formed file of parts, the file with one part replaced, and every
\* proper prefix of the file.
InputsOf(parts) ==
    { [fault |-> "none", input |-> BytesOf(parts)] }
    \cup UNION { { [fault |-> parts[j].role,
                    input |-> BytesOf([parts EXCEPT ![j].bytes = r])] :
                     r \in Replacements(parts[j].role) } :
                  j \in DOMAIN parts }
    \cup { [fault |-> "cut", input |-> SubSeq(BytesOf(parts), 1, n)] :
             n \in 0..(Len(BytesOf(parts)) - 1) }

ClassInputs == InputsOf(PartsOfA) \cup InputsOf(PartsOfEmpty)

ParseStart ==
    /\ frames = <<>>
    /\ pc = 0
    /\ objects = <<>>
    /\ free_list = <<>>
    /\ classes = EmptyMap
    /\ stdout = <<>>
    /\ status = "idle"
    /\ error = ""
    /\ error_args = <<>>
    /\ result = None
    /\ runs = 0
    /\ calls = <<>>
    /\ fetched = <<>>
    /\ \/ \E b \in PoolInputs :
              probe = [stage |-> "input", kind |-> "pool", fault |-> "none",
                       input |-> b,
                       decoded |-> [ok |-> FALSE, err |-> "", pool |-> <<>>, pos |-> 0]]
       \/ \E c \in ClassInputs :
              probe = [stage |-> "input", kind |-> "class", fault |-> c.fault,
                       input |-> c.input, decoded |-> NoClass("")]

ParseClassFile ==
    /\ probe.stage = "input"
    /\ probe.kind = "class"
    /\ probe' = [probe EXCEPT !.stage = "decoded",
                              !.decoded = parse_class_file(probe.input)]
    /\ UNCHANGED <<frames, pc, objects, free_list, classes, stdout, status,
                   error, error_args, result, runs, calls, fetched>>

ParseConstantPool ==
    /\ probe.stage = "input"
    /\ probe.kind = "pool"
    /\ probe' = [probe EXCEPT !.stage = "decoded",
                              !.decoded = parse_constant_pool(probe.input, 0)]
    /\ UNCHANGED <<frames, pc, objects, free_list, classes, stdout, status,
                   error, error_args, result, runs, calls, fetched>>

ParseNext == ParseConstantPool \/ ParseClassFile

SpecParse == ParseStart /\ [][ParseNext]_vars

\* Slot i of a decoded pool holds a Long or a Double.
IsWide(pool, i) == IsSome(pool[i + 1]) /\ Unwrap(pool[i + 1]).tag \in {"Long", "Double"}

\* C10: in a decoded constant pool of declared count N the indices run from 1
\* to N - 1; a Long or Double at index i leaves slot i + 1 empty, so that the
\* next entry is at i + 2; and every index 1 <= i < N holds an entry or is the
\* empty slot after a Long or Double at i - 1.
C10_WideEntriesTakeTwoSlots ==
    (probe.stage = "decoded" /\ probe.kind = "pool" /\ probe.decoded.ok) =>
        LET pool == probe.decoded.pool
            N == Len(pool)
        IN
        /\ N = u16_at(probe.input, 0)
        /\ N > 0 => pool[1] = None
        /\ \A i \in 1..(N - 1) :
               /\ (IsWide(pool, i) /\ i + 1 < N) => pool[i + 2] = None
               /\ pool[i + 1] = None => (i > 1 /\ IsWide(pool, i - 1))

\* ------------------------------------------------------ the legacy executor
\* execute_method runs bytecode in a frame of its own, with a program counter
\* of its own, through execute_instruction_legacy.  While one of its calls is
\* in its loop, status is "legacy" and probe is <<[frame, pc, code]>>: the
\* local frame, the local pc and the code slice of the call.  probe keeps the
\* frame as the call left it.

\* Frame::new
Frame_new(max_locals, max_stack) ==
    new_with_context(max_locals, max_stack, <<>>, <<>>, None)

\* The arguments (code, frame, pc) of execute_instruction_legacy as the machine
\* state the instruction handlers read and write.
legacy_state(l) ==
    [ frames |-> <<[l.frame EXCEPT !.code = l.code]>>, pc |-> l.pc,
      status |-> "running", error |-> "", error_args |-> <<>>, result |-> None ]

\* execute_instruction_legacy: the arms that are the explicit-stack arms over
\* (frame, pc) use the same handlers; IRETURN and RETURN end the call.
execute_instruction_legacy(m, checked) ==
    LET opcode == code_at(m, 0) IN
    CASE opcode = NOP -> exec_nop(m)
      [] opcode \in ICONST_M1..ICONST_5 -> exec_iconst(m)
      [] opcode = BIPUSH -> exec_bipush(m)
      [] opcode = SIPUSH -> exec_sipush(m)
      [] opcode \in ILOAD_0..ILOAD_3 -> exec_iload_n(m)
      [] opcode \in ISTORE_0..ISTORE_3 -> exec_istore_n(m)
      [] opcode = IADD -> exec_iadd(m, checked)
      [] opcode = ISUB -> exec_isub(m, checked)
      [] opcode = IMUL -> exec_imul(m, checked)
      [] opcode = IDIV -> exec_idiv(m)
      [] opcode \in IFEQ..IFLE -> exec_if(m)
      [] opcode \in IF_ICMPEQ..IF_ICMPLE -> exec_if_icmp(m)
      [] opcode = GOTO -> exec_goto(m)
      [] opcode = IRETURN ->
            LET return_value == pop(top(m)) IN
            IF ~return_value.ok THEN fail(m, return_value.err)
            ELSE [with_top(m, return_value.frame) EXCEPT
                     !.status = "returned", !.result = Some(return_value.val)]
      [] opcode = RETURN -> [m EXCEPT !.status = "returned", !.result = None]
      [] OTHER -> exec_unknown(m)

\* The arguments of the execute_method calls that are made.
LegacyCalls ==
    { Call(<<>>, <<ICONST_0 + 3, ICONST_0 + 2, ISUB, IRETURN>>, 0, 2),
      Call(<<>>, <<BIPUSH, 249, ICONST_0 + 2, IDIV, IRETURN>>, 0, 2),
      Call(<<>>, <<ICONST_0 + 1, ICONST_0, IDIV, IRETURN>>, 0, 2),
      Call(<<>>, <<ICONST_M1, ICONST_0, IDIV, IRETURN>>, 0, 2),
      Call(<<>>, <<ICONST_0, ICONST_0, IDIV, IRETURN>>, 0, 2),
      Call(<<>>, <<SIPUSH, 128, 0, SIPUSH, 128, 0, IMUL, ICONST_0 + 2, IMUL,
                   ICONST_0, IDIV, IRETURN>>, 0, 2),
      Call(<<>>, <<SIPUSH, 128, 0, SIPUSH, 128, 0, IMUL, ICONST_0 + 2, IMUL,
                   ICONST_M1, IDIV, IRETURN>>, 0, 2),
      Call(<<>>, <<SIPUSH, 128, 0, SIPUSH, 128, 0, IMUL, ICONST_0 + 2, IMUL,
                   ICONST_M1, IADD, IRETURN>>, 0, 2),
      Call(<<>>, <<SIPUSH, 128, 0, SIPUSH, 128, 0, IMUL, ICONST_0 + 2, IMUL,
                   ICONST_0 + 1, ISUB, IRETURN>>, 0, 2),
      Call(<<>>, <<ICONST_5, ISTORE_0, ILOAD_0, ILOAD_0, IMUL, IRETURN>>, 1, 2),
      Call(<<>>, <<ICONST_0 + 4, ICONST_0 + 2, IF_ICMPGT, 0, 5, ICONST_0, IRETURN,
                   ICONST_0 + 1, IRETURN>>, 0, 2),
      Call(<<>>, <<ICONST_0, IFNE, 0, 4, NOP, GOTO, 0, 4, NOP, RETURN>>, 0, 1),
      Call(<<>>, <<ICONST_0 + 1, ICONST_0 + 2, IADD>>, 0, 2),
      Call(<<>>, <<IADD>>, 0, 2),
      Call(<<>>, <<DUP>>, 0, 0) }

\* execute_method up to its loop.
LegacyExecute(c) ==
    /\ status \in {"idle", "returned", "failed"}
    /\ runs < MaxRuns
    /\ runs' = runs + 1
    /\ probe' = <<[frame |-> Frame_new(c.max_locals, c.max_stack), pc |-> 0,
                   code |-> c.code]>>
    /\ status' = "legacy"
    /\ error' = ""
    /\ error_args' = <<>>
    /\ result' = None
    /\ UNCHANGED <<frames, pc, objects, free_list, classes, stdout, calls, fetched>>

\* `while pc < code.len()` is false: Ok(return_value) with no value.
LegacyExit ==
    /\ status = "legacy"
    /\ UGe(probe[1].pc, Len(probe[1].code))
    /\ status' = "returned"
    /\ result' = None
    /\ UNCHANGED <<frames, pc, objects, free_list, classes, stdout, runs,
                   error, error_args, calls, fetched, probe>>

\* One iteration of the loop of execute_method.
LegacyStep ==
    /\ status = "legacy"
    /\ ~UGe(probe[1].pc, Len(probe[1].code))
    /\ \E checked \in BOOLEAN :
         LET n == execute_instruction_legacy(legacy_state(probe[1]), checked) IN
         /\ Len(top(n).operand_stack) <= MaxOperands
         /\ probe' = <<[probe[1] EXCEPT !.frame = [top(n) EXCEPT !.code = <<>>],
                                        !.pc = n.pc]>>
         /\ status' = IF n.status = "running" THEN "legacy" ELSE n.status
         /\ error' = n.error
         /\ error_args' = n.error_args
         /\ result' = n.result
    /\ UNCHANGED <<frames, pc, objects, free_list, classes, stdout, runs, calls,
                   fetched>>

LegacyNext ==
    \/ \E c \in LegacyCalls : LegacyExecute(c)
    \/ LegacyExit
    \/ LegacyStep

\* An interpreter on which both executors are called.
SpecLegacy == Init /\ [][Next \/ LegacyNext]_vars

\* ------------------------------------------- properties of integer arithmetic

\* The legacy loop is about to dispatch opcode op.
LegacyAt(op) ==
    /\ status = "legacy"
    /\ probe[1].pc >= 0
    /\ probe[1].pc < Len(probe[1].code)
    /\ probe[1].code[probe[1].pc + 1] = op

\* The two values on top of operand stack s are Ints.
TwoInts(s) == Len(s) >= 2 /\ s[Len(s)].tag = "Int" /\ s[Len(s) - 1].tag = "Int"

\* The value pushed before the top one, and the top one.
V1(s) == s[Len(s) - 1].i
V2(s) == s[Len(s)].i

\* Stack s without its two top values.
Below2(s) == SubSeq(s, 1, Len(s) - 2)

Abs(a) == IF a < 0 THEN -a ELSE a

\* The exact result of v1 op v2 is an i32 (stated without computing it).
Fits(op, v1, v2) ==
    CASE op = IADD -> IF v2 >= 0 THEN v1 <= INT_MAX - v2 ELSE v1 >= INT_MIN - v2
      [] op = ISUB -> IF v2 >= 0 THEN v1 >= INT_MIN + v2 ELSE v1 <= INT_MAX + v2
      [] op = IMUL -> \/ v1 = 0
                      \/ v2 = 0
                      \/ /\ v1 # INT_MIN
                         /\ v2 # INT_MIN
                         /\ Abs(v1) <= INT_MAX \div Abs(v2)
      [] op = IDIV -> v2 # 0 /\ ~(v1 = INT_MIN /\ v2 = -1)

\* r is v1 op v2, the quotient truncated toward zero for IDIV.
IsResult(op, v1, v2, r) ==
    CASE op = IADD -> r = v1 + v2
      [] op = ISUB -> r = v1 - v2
      [] op = IMUL -> r = v1 * v2
      [] op = IDIV ->
            LET rem == v1 - r * v2 IN
            /\ (v1 >= 0 => rem >= 0)
            /\ (v1 <= 0 => rem <= 0)
            /\ IF v2 > 0 THEN rem < v2 /\ -rem < v2 ELSE v2 < rem /\ v2 < -rem

\* Going from stack s at p to stack t at q, the instruction popped the two top
\* values of s and pushed the Int v1 op v2, and the PC advanced by 1.
ArithStep(op, s, p, t, q) ==
    /\ q = p + 1
    /\ Len(t) = Len(s) - 1
    /\ Below2(s) = SubSeq(t, 1, Len(t) - 1)
    /\ Last(t).tag = "Int"
    /\ IsResult(op, V1(s), V2(s), Last(t).i)

ArithOps == {IADD, ISUB, IMUL, IDIV}

\* C11: iadd, isub, imul and idiv pop v2 (the top) and then v1 and push
\* v1 op v2 (a - b for a pushed before b, the quotient truncated toward zero
\* for idiv); PC advances by 1 and the stack depth decreases by one.  In both
\* executors, for every pair of Ints whose exact result is an i32 (a zero
\* divisor and results outside the i32 range are the cases of C12, C13, C14).
C11_ArithmeticOperandOrder ==
    [][\A op \in ArithOps :
         /\ (/\ AtOpcode(op)
             /\ TwoInts(Last(frames).operand_stack)
             /\ Fits(op, V1(Last(frames).operand_stack), V2(Last(frames).operand_stack)))
            => /\ status' = "running"
               /\ Len(frames') = Len(frames)
               /\ ArithStep(op, Last(frames).operand_stack, pc,
                            Last(frames').operand_stack, pc')
         /\ (/\ LegacyAt(op)
             /\ TwoInts(probe[1].frame.operand_stack)
             /\ Fits(op, V1(probe[1].frame.operand_stack), V2(probe[1].frame.operand_stack)))
            => /\ status' = "legacy"
               /\ ArithStep(op, probe[1].frame.operand_stack, probe[1].pc,
                            probe'[1].frame.operand_stack, probe'[1].pc)]_vars

\* The explicit-stack executor has computed -7 / 2 = -3.
C11_Witness ==
    /\ status = "running"
    /\ Len(frames) = 1
    /\ Last(frames).code = <<BIPUSH, 249, ICONST_0 + 2, IDIV, IRETURN>>
    /\ pc = 4
    /\ Last(frames).operand_stack = <<IntV(-3)>>

\* C12: idiv with divisor 0 fails with ArithmeticDivisionByZero for every
\* dividend, in the explicit-stack executor and in the legacy executor, and
\* pushes no result: the two operands are gone, nothing else changes.
C12_DivisionByZeroFails ==
    [][/\ (/\ AtOpcode(IDIV)
           /\ TwoInts(Last(frames).operand_stack)
           /\ V2(Last(frames).operand_stack) = 0)
          => /\ status' = "failed"
             /\ error' = "ArithmeticDivisionByZero"
             /\ pc' = pc
             /\ frames' = [frames EXCEPT ![Len(frames)].operand_stack = Below2(@)]
       /\ (/\ LegacyAt(IDIV)
           /\ TwoInts(probe[1].frame.operand_stack)
           /\ V2(probe[1].frame.operand_stack) = 0)
          => /\ status' = "failed"
             /\ error' = "ArithmeticDivisionByZero"
             /\ probe' = <<[probe[1] EXCEPT !.frame.operand_stack = Below2(@)]>>]_vars

\* Both executors have failed on INT_MIN / 0 resp. 1 / 0: the frame of the
\* failed execute_method_with_class call is still there, at its idiv, and the
\* legacy call that followed it failed at its idiv too.
C12_Witness ==
    /\ status = "failed"
    /\ error = "ArithmeticDivisionByZero"
    /\ probe # <<>>
    /\ probe[1].pc = 10
    /\ probe[1].code[probe[1].pc + 1] = IDIV
    /\ probe[1].frame.operand_stack = <<>>
    /\ Len(frames) = 1
    /\ pc = 2
    /\ Last(frames).code[pc + 1] = IDIV
    /\ Last(frames).operand_stack = <<>>

\* C13: idiv with dividend INT_MIN and divisor -1 pushes Int(INT_MIN) and
\* execution continues normally, in either executor.
C13_MinByMinusOneWraps ==
    [][/\ (/\ AtOpcode(IDIV)
           /\ Last(frames).operand_stack = <<IntV(INT_MIN), IntV(-1)>>)
          => /\ status' = "running"
             /\ pc' = pc + 1
             /\ Last(frames').operand_stack = <<IntV(INT_MIN)>>
       /\ (/\ LegacyAt(IDIV)
           /\ probe[1].frame.operand_stack = <<IntV(INT_MIN), IntV(-1)>>)
          => /\ status' = "legacy"
             /\ probe'[1].pc = probe[1].pc + 1
             /\ probe'[1].frame.operand_stack = <<IntV(INT_MIN)>>]_vars

\* v1 op v2 reduced modulo 2^32 into the i32 range.
Wrapped(op, v1, v2) ==
    CASE op = IADD -> add_i32(v1, v2).val
      [] op = ISUB -> sub_i32(v1, v2).val
      [] op = IMUL -> mul_i32(v1, v2).val

\* Going from stack s at p to stack t at q, the instruction replaced the two
\* top Ints of s by their wrapped result and the PC advanced by 1.
WrapStep(op, s, p, t, q) ==
    /\ q = p + 1
    /\ t = Append(Below2(s), IntV(Wrapped(op, V1(s), V2(s))))

\* C14: iadd, isub and imul wrap in 32-bit two's complement: for all Int
\* operands the result pushed is v1 op v2 modulo 2^32 in the i32 range, and an
\* overflowing operation neither fails nor stops execution.
C14_ArithmeticWraps ==
    [][\A op \in {IADD, ISUB, IMUL} :
         /\ (AtOpcode(op) /\ TwoInts(Last(frames).operand_stack))
            => /\ status' = "running"
               /\ WrapStep(op, Last(frames).operand_stack, pc,
                           Last(frames').operand_stack, pc')
         /\ (LegacyAt(op) /\ TwoInts(probe[1].frame.operand_stack))
            => /\ status' = "legacy"
               /\ WrapStep(op, probe[1].frame.operand_stack, probe[1].pc,
                           probe'[1].frame.operand_stack, probe'[1].pc)]_vars

\* ---------------------------------------------------------------- the heap
\* The operations of Heap called in any order on a heap that starts empty.
\* probe records the last call, [op, arg, index, ok, err] (arg the class name or
\* the field name, index the slot given or returned), with two histories:
\* last_free, the index of the latest successful free if no allocate has
\* followed it, and freed, the indices freed and not handed out again since.

Heap == [objects |-> objects, free_list |-> free_list]

HeapClassNames == {<<"A">>, <<"B">>}
HeapFieldNames == {<<"x">>}
HeapValues == {IntV(7)}

\* The indices the calls are made with: the slots, and one past the bound.
HeapIndices == 0..MaxObjects

HeapCall(op, arg, index, ok, err, last_free, freed) ==
    [op |-> op, arg |-> arg, index |-> index, ok |-> ok, err |-> err,
     last_free |-> last_free, freed |-> freed]

HeapSame == UNCHANGED <<frames, pc, classes, stdout, status, result, runs,
                        error, error_args, calls, fetched>>

\* Heap::new
HeapStart ==
    /\ frames = <<>>
    /\ pc = 0
    /\ objects = <<>>
    /\ free_list = <<>>
    /\ classes = EmptyMap
    /\ stdout = <<>>
    /\ status = "idle"
    /\ error = ""
    /\ error_args = <<>>
    /\ result = None
    /\ runs = 0
    /\ calls = <<>>
    /\ fetched = <<>>
    /\ probe = HeapCall("new", <<>>, 0, TRUE, "", None, {})

HeapAllocate ==
    \E class_name \in HeapClassNames :
      LET a == allocate(Heap, class_name) IN
      /\ Len(a.heap.objects) <= MaxObjects
      /\ objects' = a.heap.objects
      /\ free_list' = a.heap.free_list
      /\ probe' = HeapCall("allocate", class_name, a.index, TRUE, "", None, probe.freed \ {a.index})
      /\ HeapSame

HeapFree ==
    \E index \in HeapIndices :
      LET r == free(Heap, index) IN
      /\ Len(r.heap.free_list) <= MaxObjects
      /\ objects' = r.heap.objects
      /\ free_list' = r.heap.free_list
      /\ probe' = IF r.ok
                  THEN HeapCall("free", <<>>, index, TRUE, "", Some(index),
                                probe.freed \cup {index})
                  ELSE HeapCall("free", <<>>, index, FALSE, r.err, probe.last_free,
                                probe.freed)
      /\ HeapSame

\* Heap::get and Heap::get_mut
HeapGet ==
    \E index \in HeapIndices, op \in {"get", "get_mut"} :
      LET r == heap_get(Heap, index) IN
      /\ probe' = HeapCall(op, <<>>, index, r.ok, IF r.ok THEN "" ELSE r.err,
                           probe.last_free, probe.freed)
      /\ UNCHANGED <<objects, free_list>>
      /\ HeapSame

HeapSetField ==
    \E index \in HeapIndices, name \in HeapFieldNames, value \in HeapValues :
      LET r == set_field(Heap, index, name, value) IN
      /\ objects' = r.heap.objects
      /\ free_list' = r.heap.free_list
      /\ probe' = HeapCall("set_field", name, index, r.ok, IF r.ok THEN "" ELSE r.err,
                           probe.last_free, probe.freed)
      /\ HeapSame

HeapGetField ==
    \E index \in HeapIndices, name \in HeapFieldNames :
      LET r == get_field(Heap, index, name) IN
      /\ probe' = HeapCall("get_field", name, index, r.ok, IF r.ok THEN "" ELSE r.err,
                           probe.last_free, probe.freed)
      /\ UNCHANGED <<objects, free_list>>
      /\ HeapSame

HeapNext == HeapAllocate \/ HeapFree \/ HeapGet \/ HeapSetField \/ HeapGetField

SpecHeap == HeapStart /\ [][HeapNext]_vars

FreedSlotsEmpty ==
    \A i \in probe.freed : i < Len(objects) /\ objects[i + 1] = None

\* C16: from a successful free(i) until an allocate reuses i, every access
\* through i (get, get_mut, set_field, get_field) fails with BadReference and
\* leaves the heap unchanged; free(i) with i beyond the slot sequence fails
\* with BadReference and changes neither the slots nor the free list.
C16_FreedIndexIsBadReference ==
    /\ []FreedSlotsEmpty
    /\ [][/\ (/\ probe'.op \in {"get", "get_mut", "set_field", "get_field"}
              /\ probe'.index \in probe.freed)
             => /\ ~probe'.ok
                /\ probe'.err = "BadReference"
                /\ UNCHANGED <<objects, free_list>>
          /\ (probe'.op = "free" /\ probe'.index >= Len(objects))
             => /\ ~probe'.ok
                /\ probe'.err = "BadReference"
                /\ UNCHANGED <<objects, free_list>>]_vars

\* set_field through index 0 has failed: 0 was freed and is on the free list,
\* while slot 1 still holds its object.
C16_Witness ==
    /\ probe.op = "set_field"
    /\ probe.index = 0
    /\ ~probe.ok
    /\ probe.err = "BadReference"
    /\ 0 \in probe.freed
    /\ free_list = <<0>>
    /\ Len(objects) = 2
    /\ IsSome(objects[2])

\* ------------------------------------------------- properties of field access

\* The field reference the putfield or getfield at PC names.
FieldAtPc ==
    resolve_field_ref(classes[Last(frames).class_name],
                      u16_from_be_bytes(Last(frames).code[pc + 2],
                                        Last(frames).code[pc + 3]))

\* The instruction at PC is op, with its operand a resolvable field reference.
FieldInstruction(op) ==
    /\ AtOpcode(op)
    /\ pc + 2 < Len(Last(frames).code)
    /\ MapHas(classes, Last(frames).class_name)
    /\ FieldAtPc.ok

\* v is a reference to a heap slot that holds an object.
IsObjectRef(v) == v.tag = "Ref" /\ IsSome(v.r) /\ v.r # Some(SYSTEM_OUT) /\ NullOrAllocated(v.r)

\* putfield with a value on top of the stack and an object reference beneath it.
PutfieldCase ==
    /\ FieldInstruction(PUTFIELD)
    /\ Len(Last(frames).operand_stack) >= 2
    /\ IsObjectRef(Last(frames).operand_stack[Len(Last(frames).operand_stack) - 1])

\* getfield with an object reference on top of the stack.
GetfieldCase ==
    /\ FieldInstruction(GETFIELD)
    /\ Len(Last(frames).operand_stack) >= 1
    /\ IsObjectRef(Last(Last(frames).operand_stack))

\* Slot j of the heap differs after the step only in that field name of its
\* object holds value.
OnlyFieldWritten(j, name, value) ==
    /\ Len(objects') = Len(objects)
    /\ free_list' = free_list
    /\ \A k \in 1..Len(objects) : k # j => objects'[k] = objects[k]
    /\ IsSome(objects'[j])
    /\ Unwrap(objects'[j]).class_name = Unwrap(objects[j]).class_name
    /\ DOMAIN Unwrap(objects'[j]).fields = DOMAIN Unwrap(objects[j]).fields \cup {name}
    /\ \A n \in DOMAIN Unwrap(objects'[j]).fields :
           Unwrap(objects'[j]).fields[n] =
               IF n = name THEN value ELSE Unwrap(objects[j]).fields[n]

\* C17: putfield pops the value and then the object reference and stores the
\* value under the resolved field name of that object, changing no other
\* object and no other field; nothing but such a putfield changes an object;
\* so getfield, which pops the reference, pushes the value stored last under
\* the field name in that object, and fails with FieldUnset when the field
\* was never written on that object.
C17_FieldRoundTrip ==
    [][LET s == Last(frames).operand_stack IN
       /\ PutfieldCase =>
            /\ status' = "running"
            /\ pc' = pc + 3
            /\ Last(frames').operand_stack = Below2(s)
            /\ OnlyFieldWritten(Unwrap(s[Len(s) - 1].r) + 1, FieldAtPc.val.name, Last(s))
       /\ GetfieldCase =>
            LET fields == Unwrap(objects[Unwrap(Last(s).r) + 1]).fields IN
            /\ objects' = objects
            /\ IF MapHas(fields, FieldAtPc.val.name)
               THEN /\ status' = "running"
                    /\ pc' = pc + 3
                    /\ Last(frames').operand_stack =
                           Append(Front(s), fields[FieldAtPc.val.name])
               ELSE /\ status' = "failed"
                    /\ error' = "FieldUnset"
       /\ \A j \in 1..Len(objects) :
            (IsSome(objects[j]) /\ objects'[j] # objects[j]) =>
                /\ PutfieldCase
                /\ j = Unwrap(s[Len(s) - 1].r) + 1]_vars

\* x of object 0 was written 4 and then 5, y of object 0 was written 3 and x
\* of object 1 was written 2; getfield x on object 0 has pushed 5.
C17_Witness ==
    /\ status = "running"
    /\ pc = 32
    /\ Last(frames).operand_stack = <<IntV(5)>>
    /\ Len(objects) = 2
    /\ Unwrap(objects[1]).fields = MapPut(MapPut(EmptyMap, <<"x">>, IntV(5)), <<"y">>, IntV(3))
    /\ Unwrap(objects[2]).fields = MapPut(EmptyMap, <<"x">>, IntV(2))

\* ------------------------------------------- properties of failed resolution

\* The tags a resolver accepts at its index.
Accepts(op) ==
    CASE op = "resolve_class_ref"  -> {"Class"}
      [] op = "resolve_method_ref" -> {"MethodRef", "InterfaceMethodRef"}
      [] op = "resolve_field_ref"  -> {"FieldRef"}

\* Index i of pool is 0, past the pool, or an empty slot.
NoEntry(pool, i) == i = 0 \/ i >= Len(pool) \/ pool[i + 1] = None

TagAt(pool, i) == Unwrap(pool[i + 1]).tag

\* Index i of pool holds a Class entry named by a Utf8 entry.
NamedClass(pool, i) ==
    /\ ~NoEntry(pool, i)
    /\ TagAt(pool, i) = "Class"
    /\ ~NoEntry(pool, Unwrap(pool[i + 1]).name_index)
    /\ TagAt(pool, Unwrap(pool[i + 1]).name_index) = "Utf8"

\* Index i of pool holds a NameAndType entry of two Utf8 entries.
NamedMember(pool, i) ==
    /\ ~NoEntry(pool, i)
    /\ TagAt(pool, i) = "NameAndType"
    /\ ~NoEntry(pool, Unwrap(pool[i + 1]).name_index)
    /\ TagAt(pool, Unwrap(pool[i + 1]).name_index) = "Utf8"
    /\ ~NoEntry(pool, Unwrap(pool[i + 1]).descriptor_index)
    /\ TagAt(pool, Unwrap(pool[i + 1]).descriptor_index) = "Utf8"

\* The call just made is a call of a resolver.
ResolverCalled == probe'.n # probe.n /\ probe'.last.op \in Resolvers

\* C18: a resolution at an index that is 0, beyond the pool or an empty slot
\* fails with BadConstantPoolIndex; at an entry of a tag the resolver does not
\* accept it fails with WrongEntryKind, where resolve_method_ref accepts
\* exactly MethodRef and InterfaceMethodRef, resolve_field_ref exactly
\* FieldRef, and resolve_class_ref exactly Class, whose name index must be a
\* Utf8; an accepted entry with well-formed children resolves.
C18_ResolutionFailureModes ==
    [][ResolverCalled =>
         LET call == probe'.last
             pool == classes[call.class].constant_pool
             i == call.index
         IN
         IF NoEntry(pool, i)
         THEN ~call.ok /\ call.err = "BadConstantPoolIndex"
         ELSE IF TagAt(pool, i) \notin Accepts(call.op)
         THEN ~call.ok /\ call.err = "WrongEntryKind"
         ELSE IF call.op = "resolve_class_ref"
         THEN IF NoEntry(pool, Unwrap(pool[i + 1]).name_index)
              THEN ~call.ok /\ call.err = "BadConstantPoolIndex"
              ELSE IF TagAt(pool, Unwrap(pool[i + 1]).name_index) # "Utf8"
              THEN ~call.ok /\ call.err = "WrongEntryKind"
              ELSE /\ call.ok
                   /\ call.val = Some(Unwrap(pool[Unwrap(pool[i + 1]).name_index + 1]).s)
         ELSE (/\ NamedClass(pool, Unwrap(pool[i + 1]).class_index)
               /\ NamedMember(pool, Unwrap(pool[i + 1]).name_and_type_index))
              => call.ok]_vars

\* resolve_class_ref has failed with WrongEntryKind at the Class entry of U
\* whose name index is a Class, after resolve_field_ref failed with
\* BadConstantPoolIndex at the empty slot after the Long of U.
C18_Witness ==
    /\ probe.last.op = "resolve_class_ref"
    /\ probe.last.class = <<"U">>
    /\ probe.last.index = 5
    /\ ~probe.last.ok
    /\ probe.last.err = "WrongEntryKind"
    /\ <<<<"U">>, 4>> \in probe.reads

Bodiless(method) ==
    \/ has_flag(method.access_flags, ACC_NATIVE)
    \/ has_flag(method.access_flags, ACC_ABSTRACT)

\* No attribute of method is named "Code".
Codeless(file, method) ==
    \A k \in DOMAIN method.attributes :
        get_utf8(file.constant_pool, method.attributes[k].name_index)
            # [ok |-> TRUE, val |-> <<"C", "o", "d", "e">>]

\* file has a method that needs a Code attribute and has none.
HasCodelessMethod(file) ==
    \E k \in DOMAIN file.methods :
        ~Bodiless(file.methods[k]) /\ Codeless(file, file.methods[k])

KeyOfMethod(file, method) ==
    member_key(get_utf8(file.constant_pool, method.name_index).val,
               get_utf8(file.constant_pool, method.descriptor_index).val)

\* The native and abstract methods of file are, in the class installed as
\* name, without code.
BodilessInstalledEmpty(cls, name, file) ==
    \A k \in DOMAIN file.methods :
        Bodiless(file.methods[k]) =>
            LET key == KeyOfMethod(file, file.methods[k]) IN
            /\ MapHas(cls[name].methods, key)
            /\ cls[name].methods[key].max_stack = 0
            /\ cls[name].methods[key].max_locals = 0
            /\ cls[name].methods[key].code = <<>>

LoadClassCalled == probe'.n # probe.n /\ probe'.last.op = "load_class"

NameOfFile(file) == get_class_name(file.constant_pool, file.this_class)

\* load_class has installed file as a new class.
Installs(file) ==
    /\ probe'.last.ok
    /\ NameOfFile(file).ok
    /\ ~MapHas(classes, NameOfFile(file).val)

\* C20 as stated: load_class of a file that has a method neither native nor
\* abstract and without Code attribute fails and leaves the metaspace
\* unchanged; native and abstract methods are installed with max_stack 0,
\* max_locals 0 and empty code.
C20_CodelessLoadFails ==
    [][LoadClassCalled =>
         LET file == ClassFiles[probe'.last.index] IN
         /\ HasCodelessMethod(file) => ~probe'.last.ok
         /\ ~probe'.last.ok => classes' = classes
         /\ Installs(file) =>
                BodilessInstalledEmpty(classes', NameOfFile(file).val, file)]_vars

\* C20: load_class of a file that has a method neither native nor abstract
\* and without Code attribute fails, unless a class of the file's name is
\* loaded already, and then the call succeeds as a no-op without looking at
\* the methods; either way, and after every failed load_class, the metaspace
\* is unchanged.  Native and abstract methods are installed with max_stack 0,
\* max_locals 0 and empty code, whether or not they carry a Code attribute.
C20_CodelessLoadFailsUnlessLoaded ==
    [][LoadClassCalled =>
         LET file == ClassFiles[probe'.last.index]
             loaded == NameOfFile(file).ok /\ MapHas(classes, NameOfFile(file).val)
         IN
         /\ HasCodelessMethod(file) =>
                /\ probe'.last.ok <=> loaded
                /\ classes' = classes
         /\ ~probe'.last.ok => classes' = classes
         /\ Installs(file) =>
                BodilessInstalledEmpty(classes', NameOfFile(file).val, file)]_vars

\* load_class of the file of U whose n() has no Code attribute has failed and
\* has left M, loaded before with its native nat() without code, alone.
C20_Witness ==
    /\ probe.last.op = "load_class"
    /\ probe.last.index = 5
    /\ ~probe.last.ok
    /\ DOMAIN classes = {<<"M">>}
    /\ BodilessInstalledEmpty(classes, <<"M">>, FileM)
    /\ \E k \in DOMAIN FileM.methods : Bodiless(FileM.methods[k])

\* ---------------------------------------------- properties of loaded methods

\* C21: every method of every loaded class that is neither abstract nor
\* native has at least one byte of code, and a loaded class has at most one
\* method per (name, descriptor) pair.
C21_LoadedMethodsHaveCode ==
    \A c \in DOMAIN classes :
        LET methods == classes[c].methods IN
        /\ \A key \in DOMAIN methods :
               (~methods[key].is_native /\ ~methods[key].is_abstract)
                   => Len(methods[key].code) >= 1
        /\ \A k1, k2 \in DOMAIN methods :
               (/\ methods[k1].name = methods[k2].name
                /\ methods[k1].descriptor = methods[k2].descriptor) => k1 = k2

\* ------------------------------------------------- properties of the decoder

\* C22: a buffer whose first word is not 0xCAFEBABE, that has a constant-pool
\* tag outside the fourteen known ones, or in which a declared count or length
\* needs more bytes than the buffer holds is rejected with BadFormat and
\* yields no class; the files these buffers were made from are decoded.
C22_MalformedRejected ==
    (probe.stage = "decoded" /\ probe.kind = "class") =>
        IF probe.fault = "none"
        THEN probe.decoded.ok /\ IsSome(probe.decoded.class)
        ELSE /\ ~probe.decoded.ok
             /\ probe.decoded.err = "BadFormat"
             /\ probe.decoded.class = None

\* The file of class a whose Code attribute declares 65536 bytes was rejected.
C22_Witness ==
    /\ probe.stage = "decoded"
    /\ probe.kind = "class"
    /\ probe.fault = "len4"
    /\ SubSeq(probe.input, 1, 4) = MAGIC
    /\ Len(probe.input) = Len(BytesOf(PartsOfA))
    /\ ~probe.decoded.ok
    /\ probe.decoded.class = None

\* ------------------------------------------------- properties of invocation

\* invokespecial on a method of a loaded non-system class, with the receiver
\* and the arguments on the operand stack and room for them in the callee's
\* locals.
C23_Case ==
    /\ AtOpcode(INVOKESPECIAL)
    /\ pc + 2 < Len(Last(frames).code)
    /\ MapHas(classes, Last(frames).class_name)
    /\ resolve_method_ref(classes[Last(frames).class_name],
                          u16_from_be_bytes(Last(frames).code[pc + 2],
                                            Last(frames).code[pc + 3])).ok
    /\ ~starts_with(InvokeTarget.class_name, JAVA_PREFIX)
    /\ MapHas(classes, InvokeTarget.class_name)
    /\ MapHas(classes[InvokeTarget.class_name].methods,
              member_key(InvokeTarget.name, InvokeTarget.descriptor))
    /\ parse_arg_count(TargetMethod.descriptor) + 1 <= Len(Last(frames).operand_stack)
    /\ parse_arg_count(TargetMethod.descriptor) + 1 <= TargetMethod.max_locals

InvokeResolves(op) ==
    /\ AtOpcode(op)
    /\ pc + 2 < Len(Last(frames).code)
    /\ MapHas(classes, Last(frames).class_name)
    /\ resolve_method_ref(classes[Last(frames).class_name],
                          u16_from_be_bytes(Last(frames).code[pc + 2],
                                            Last(frames).code[pc + 3])).ok

\* The class name begins with the five characters java/.
NamedJava(class_name) ==
    /\ Len(class_name) >= 5
    /\ class_name[1] = "j" /\ class_name[2] = "a" /\ class_name[3] = "v"
    /\ class_name[4] = "a" /\ class_name[5] = "/"

\* C24: invokestatic or invokespecial whose resolved target class name begins
\* with java/ only advances PC by 3: it succeeds whether or not that class is
\* loaded and leaves the operand stacks, the locals, the frame stack and the
\* heap unchanged.
C24_SystemClassNoOp ==
    [][\A op \in {INVOKESTATIC, INVOKESPECIAL} :
         (InvokeResolves(op) /\ NamedJava(InvokeTarget.class_name)) =>
             /\ status' = "running"
             /\ pc' = pc + 3
             /\ frames' = frames
             /\ objects' = objects
             /\ free_list' = free_list
             /\ stdout' = stdout]_vars

\* invokespecial of sum(II)I of the loaded class java/P at PC 4 has left the
\* receiver and both arguments of the caller where they were: PC is 7.
C24_Witness ==
    /\ status = "running"
    /\ Len(frames) = 1
    /\ pc = 7
    /\ MapHas(classes, JAVA_PREFIX \o <<"P">>)
    /\ Last(frames).code[5] = INVOKESPECIAL
    /\ Last(frames).local_vars = <<IntV(1)>>
    /\ Last(frames).operand_stack = <<IntV(1), IntV(2)>>

\* C25: invokestatic or invokespecial whose resolved target class does not
\* begin with java/ fails with ClassNotLoaded when that class is not in the
\* metaspace, and with MemberNotFound when the class is loaded and has no
\* method with the resolved name:descriptor key; no argument is popped and no
\* frame is pushed: operand stacks, frame stack and PC are as before.
C25_InvokeLookupFails ==
    [][\A op \in {INVOKESTATIC, INVOKESPECIAL} :
         (InvokeResolves(op) /\ ~NamedJava(InvokeTarget.class_name)) =>
             /\ ~MapHas(classes, InvokeTarget.class_name) =>
                    /\ status' = "failed"
                    /\ error' = "ClassNotLoaded"
                    /\ frames' = frames
                    /\ pc' = pc
             /\ (/\ MapHas(classes, InvokeTarget.class_name)
                 /\ ~MapHas(classes[InvokeTarget.class_name].methods,
                            InvokeTarget.name \o <<":">> \o InvokeTarget.descriptor)) =>
                    /\ status' = "failed"
                    /\ error' = "MemberNotFound"
                    /\ frames' = frames
                    /\ pc' = pc]_vars

\* invokespecial of nope()V, which M does not have, has failed at PC 1 with
\* the receiver still on the operand stack.
C25_Witness ==
    /\ status = "failed"
    /\ error = "MemberNotFound"
    /\ Len(frames) = 1
    /\ pc = 1
    /\ Last(frames).code = <<ICONST_0 + 1, INVOKESPECIAL, 0, 39, RETURN>>
    /\ Last(frames).operand_stack = <<IntV(1)>>

\* ----------------------------------------------------- properties of println

\* C26: invokevirtual of println with its arg_count(descriptor) arguments and
\* the receiver on the stack pops them, appends exactly one line to the
\* standard text sink (the formatted argument, or the empty line when there
\* is no argument) and advances PC by 3; invokevirtual of any other method
\* name fails and writes nothing.
C26_PrintlnOneLine ==
    [][InvokeResolves(INVOKEVIRTUAL) =>
         LET n == parse_arg_count(InvokeTarget.descriptor)
             caller == Last(frames)
             depth == Len(Last(frames).operand_stack)
         IN
         IF InvokeTarget.name = <<"p", "r", "i", "n", "t", "l", "n">>
         THEN n + 1 <= depth =>
                  /\ status' = "running"
                  /\ pc' = pc + 3
                  /\ frames' = [frames EXCEPT ![Len(frames)].operand_stack =
                                                  SubSeq(@, 1, depth - n - 1)]
                  /\ Len(stdout') = Len(stdout) + 1
                  /\ SubSeq(stdout', 1, Len(stdout)) = stdout
                  /\ n = 0 => Last(stdout') = <<>>
                  /\ n = 1 => Last(stdout') = println_line(caller.operand_stack[depth])
         ELSE /\ status' = "failed"
              /\ stdout' = stdout]_vars

\* ------------------------------------------------------- method descriptors
\* A further specification: parse_arg_count applied to one descriptor.  probe
\* holds the parameter types and the return type the descriptor is made of
\* and, once counted, the result.

MaxParams == 3

\* Field types: base types, a class, arrays of one and of two dimensions.
ParamTypes ==
    { <<"I">>, <<"J">>, <<"D">>, <<"Z">>, <<"L", "a", "/", "S", ";">>,
      <<"[", "I">>, <<"[", "L", "a", "/", "S", ";">>,
      <<"[", "[", "I">>, <<"[", "[", "L", "a", "/", "S", ";">> }

ReturnTypes == { <<"V">>, <<"I">>, <<"[", "I">>, <<"L", "a", "/", "S", ";">> }

\* The descriptor `(parameters)return`.
DescriptorOf(params, ret) == <<"(">> \o concat(params) \o <<")">> \o ret

ArgsStart ==
    /\ frames = <<>>
    /\ pc = 0
    /\ objects = <<>>
    /\ free_list = <<>>
    /\ classes = EmptyMap
    /\ stdout = <<>>
    /\ status = "idle"
    /\ error = ""
    /\ error_args = <<>>
    /\ result = None
    /\ runs = 0
    /\ calls = <<>>
    /\ fetched = <<>>
    /\ \E params \in UNION { [1..n -> ParamTypes] : n \in 0..MaxParams },
          ret \in ReturnTypes :
           probe = [stage |-> "input", params |-> params, ret |-> ret, count |-> 0]

ParseArgCount ==
    /\ probe.stage = "input"
    /\ probe' = [probe EXCEPT !.stage = "counted",
                              !.count = parse_arg_count(DescriptorOf(probe.params,
                                                                     probe.ret))]
    /\ UNCHANGED <<frames, pc, objects, free_list, classes, stdout, status,
                   error, error_args, result, runs, calls, fetched>>

ArgsNext == ParseArgCount

SpecArgs == ArgsStart /\ [][ArgsNext]_vars

\* C27: parse_arg_count returns the number of parameters of the descriptor:
\* every base type, every class type and every array type, whatever its
\* element type and number of dimensions, counts one, and the return type is
\* not counted.
C27_ArgCountIsParameterCount ==
    probe.stage = "counted" => probe.count = Len(probe.params)

\* ---------------------------------------------------- properties of branches

\* The signed 16-bit big-endian offset in the two bytes after the opcode at PC.
OffsetAtPc ==
    LET u == Last(frames).code[pc + 2] * 256 + Last(frames).code[pc + 3] IN
    IF u < 32768 THEN u ELSE u - 65536

\* Whether the branch op is taken on v1 and v2 (v2 is 0 for ifeq .. ifle).
Taken(op, v1, v2) ==
    CASE op \in {IFEQ, IF_ICMPEQ} -> v1 = v2
      [] op \in {IFNE, IF_ICMPNE} -> v1 # v2
      [] op \in {IFLT, IF_ICMPLT} -> v1 < v2
      [] op \in {IFGE, IF_ICMPGE} -> v1 >= v2
      [] op \in {IFGT, IF_ICMPGT} -> v1 > v2
      [] op \in {IFLE, IF_ICMPLE} -> v1 <= v2

\* A conditional branch at PC with its offset bytes and its Int operands.
BranchCase(op) ==
    /\ AtOpcode(op)
    /\ pc + 2 < Len(Last(frames).code)
    /\ IF op <= IFLE
       THEN /\ Last(frames).operand_stack # <<>>
            /\ Last(Last(frames).operand_stack).tag = "Int"
       ELSE TwoInts(Last(frames).operand_stack)

\* C28: ifeq .. ifle pop one Int v, if_icmpeq .. if_icmple pop v2 then v1; when
\* the comparison of v with 0, respectively of v1 with v2, is true PC becomes
\* the opcode's PC plus the signed 16-bit offset, otherwise PC + 3; the locals
\* and the rest of the operand stack are unchanged.
C28_ConditionalBranches ==
    [][\A op \in IFEQ..IF_ICMPLE :
         BranchCase(op) =>
             LET s == Last(frames).operand_stack
                 taken == IF op <= IFLE THEN Taken(op, V2(s), 0)
                          ELSE Taken(op, V1(s), V2(s))
             IN
             /\ status' = "running"
             /\ pc' = IF taken THEN pc + OffsetAtPc ELSE pc + 3
             /\ frames' = [frames EXCEPT ![Len(frames)].operand_stack =
                              IF op <= IFLE THEN SubSeq(s, 1, Len(s) - 1)
                              ELSE Below2(s)]
             /\ objects' = objects]_vars

\* if_icmplt on 2 and 1 at PC 5 was not taken: PC is 8, local 0 is still 5
\* and the 3 below the operands is still on the stack.
C28_Witness ==
    /\ status = "running"
    /\ pc = 8
    /\ Last(frames).code = <<ICONST_5, ISTORE_0, ICONST_0 + 3, ICONST_0 + 2,
                             ICONST_0 + 1, IF_ICMPLT, 0, 4, NOP, RETURN>>
    /\ Last(frames).local_vars = <<IntV(5)>>
    /\ Last(frames).operand_stack = <<IntV(3)>>

\* goto at PC with its two offset bytes.
GotoCase == AtOpcode(GOTO) /\ pc + 2 < Len(Last(frames).code)

\* C29 as stated: after a goto whose operand bytes are 00 03 at PC p, the PC
\* is again p.
C29_Goto3LoopsInPlace ==
    [][(GotoCase /\ OffsetAtPc = 3) => pc' = pc]_vars

\* C29: goto sets PC to the opcode's PC plus the signed 16-bit offset and
\* changes nothing else: the goto that loops in place is the one with offset
\* 0x0000, after which the same goto is executed again; after a goto with
\* offset 0x0003 at PC p the PC is p + 3, the instruction that follows it.
C29_GotoAddsOffset ==
    [][GotoCase =>
         /\ status' = "running"
         /\ pc' = pc + OffsetAtPc
         /\ frames' = frames
         /\ OffsetAtPc = 0 => pc' = pc
         /\ OffsetAtPc = 3 => pc' = pc + 3]_vars

\* The goto 0x0003 at PC 0 has led to the goto 0x0000 at PC 3, which has been
\* fetched there.
C29_Witness ==
    /\ status = "running"
    /\ pc = 3
    /\ Last(frames).code = <<GOTO, 0, 3, GOTO, 0, 0>>
    /\ fetched = <<3, 6>>


\* --------------------------------------------- properties of local variables

\* The index a load or store opcode at PC names: the operand byte of iload and
\* aload, the opcode's distance from its _0 form otherwise.
LocalIndexAtPc ==
    LET op == Last(frames).code[pc + 1] IN
    CASE op \in {ILOAD, ALOAD} -> Last(frames).code[pc + 2]
      [] op \in ILOAD_0..ILOAD_3 -> op - ILOAD_0
      [] op \in ALOAD_0..ALOAD_3 -> op - ALOAD_0
      [] op \in ISTORE_0..ISTORE_3 -> op - ISTORE_0
      [] op \in ASTORE_0..ASTORE_3 -> op - ASTORE_0

\* A load opcode at PC with its operand byte inside the bytecode.
LoadCase ==
    \/ \E op \in (ILOAD_0..ILOAD_3) \cup (ALOAD_0..ALOAD_3) : AtOpcode(op)
    \/ /\ \E op \in {ILOAD, ALOAD} : AtOpcode(op)
       /\ pc + 1 < Len(Last(frames).code)

\* A store opcode at PC with a value on the operand stack.
StoreCase ==
    /\ \E op \in (ISTORE_0..ISTORE_3) \cup (ASTORE_0..ASTORE_3) : AtOpcode(op)
    /\ Last(frames).operand_stack # <<>>

\* C30: local-variable access is checked against max_locals. Every frame has
\* exactly max_locals locals, and the frame a run starts in has them all Int(0)
\* and an empty operand stack. A store opcode with index i < max_locals puts the
\* popped value v in slot i and changes no other slot, and get_local(i) of the
\* frame then yields v; a load opcode with i < max_locals pushes the value of
\* slot i and changes no local. With i >= max_locals the load and the store
\* fail with LocalOutOfBounds and every local is unchanged.
C30_LocalsBoundsChecked ==
    [][/\ \A k \in 1..Len(frames') :
              Len(frames'[k].local_vars) = frames'[k].max_locals
       /\ runs' # runs =>
              /\ Last(frames').local_vars =
                     [k \in 1..Last(frames').max_locals |-> IntV(0)]
              /\ Last(frames').operand_stack = <<>>
       /\ StoreCase =>
              LET f == Last(frames)
                  i == LocalIndexAtPc
                  v == Last(f.operand_stack)
              IN
              IF i < f.max_locals
              THEN /\ status' = "running"
                   /\ Len(frames') = Len(frames)
                   /\ Last(frames').local_vars =
                          [k \in 1..f.max_locals |->
                              IF k = i + 1 THEN v ELSE f.local_vars[k]]
                   /\ get_local(Last(frames'), i) = [ok |-> TRUE, val |-> v]
              ELSE /\ status' = "failed"
                   /\ error' = "LocalOutOfBounds"
                   /\ Len(frames') = Len(frames)
                   /\ Last(frames').local_vars = f.local_vars
       /\ LoadCase =>
              LET f == Last(frames)
                  i == LocalIndexAtPc
              IN
              IF i < f.max_locals
              THEN /\ status' = "running"
                   /\ Len(frames') = Len(frames)
                   /\ Last(frames').local_vars = f.local_vars
                   /\ Last(frames').operand_stack =
                          Append(f.operand_stack, f.local_vars[i + 1])
              ELSE /\ status' = "failed"
                   /\ error' = "LocalOutOfBounds"
                   /\ frames' = frames]_vars

\* iload 0 after istore_0 of 2 has pushed 2: slot 0 holds 2 and so does the top
\* of the operand stack.
C30_RoundTripWitness ==
    /\ status = "running"
    /\ pc = 4
    /\ Last(frames).code = <<ICONST_0 + 2, ISTORE_0, ILOAD, 0, IRETURN>>
    /\ Last(frames).local_vars = <<IntV(2)>>
    /\ Last(frames).operand_stack = <<IntV(2)>>

\* astore_2 in a frame of two locals has failed at PC 3 with LocalOutOfBounds:
\* slot 0 still holds the 4 stored before and slot 1 the initial 0.
C30_Witness ==
    /\ status = "failed"
    /\ error = "LocalOutOfBounds"
    /\ pc = 3
    /\ Last(frames).code = <<ICONST_0 + 4, ISTORE_0, ICONST_0 + 3, ASTORE_0 + 2,
                             ILOAD, 2, RETURN>>
    /\ Last(frames).local_vars = <<IntV(4), IntV(0)>>


\* --------------------------------------------- properties of unknown opcodes

\* C31: an opcode byte outside the implemented set makes the call fail with
\* UnsupportedOpcode carrying that byte and the PC at which it was fetched; the
\* frames (operand stacks and locals), the heap, the metaspace, the output and
\* the PC are unchanged.
C31_UnsupportedOpcodeFails ==
    [][(/\ status = "running"
        /\ frames # <<>>
        /\ pc >= 0
        /\ pc < Len(Last(frames).code)
        /\ Last(frames).code[pc + 1] \notin Implemented) =>
           /\ status' = "failed"
           /\ error' = "UnsupportedOpcode"
           /\ error_args' = <<Last(frames).code[pc + 1], pc>>
           /\ fetched' = <<pc, Len(Last(frames).code)>>
           /\ UNCHANGED <<frames, pc, objects, free_list, classes, stdout>>]_vars

\* monitorexit at PC 3 has failed: the error carries 0xc3 and 3, local 0 still
\* holds 1 and the operand stack still holds 2.
C31_Witness ==
    /\ status = "failed"
    /\ error = "UnsupportedOpcode"
    /\ error_args = <<195, 3>>
    /\ pc = 3
    /\ Last(frames).local_vars = <<IntV(1)>>
    /\ Last(frames).operand_stack = <<IntV(2)>>


\* ---------------------------------------------- properties of object handles

\* C32: allocate never returns the handle of an object that is currently
\* allocated, whatever calls of allocate and free came before, a free of an
\* already empty slot included: the slot the returned index designates was
\* empty or did not exist, and every other object keeps its contents.
C32_AllocateReturnsFreshHandle ==
    [][probe'.op = "allocate" =>
         /\ \/ probe'.index >= Len(objects)
            \/ objects[probe'.index + 1] = None
         /\ \A k \in 1..Len(objects) :
              (IsSome(objects[k]) /\ k # probe'.index + 1) => objects'[k] = objects[k]]_vars

\* Every index of the free list designates an empty slot and occurs once.
C32_FreeListDesignatesEmptySlots ==
    /\ \A k \in 1..Len(free_list) :
         /\ free_list[k] < Len(objects)
         /\ objects[free_list[k] + 1] = None
    /\ \A j, k \in 1..Len(free_list) : free_list[j] = free_list[k] => j = k


\* -------------------------------------------- properties of return addresses

\* C33: at every instruction boundary the bottom frame is the only frame whose
\* return_address is absent, every other frame's return_address is the PC of
\* the invoke instruction in the frame directly beneath it plus 3, and no
\* ireturn or return has failed with a missing return address; over any
\* sequence of execute_method_with_class calls, failed ones included.
C33_ReturnAddressInvariant ==
    /\ status = "running" =>
         \A k \in 1..Len(frames) :
           /\ IsSome(frames[k].return_address) <=> k > 1
           /\ k > 1 =>
                /\ IsSome(calls[k])
                /\ frames[k - 1].code[Unwrap(calls[k]).invoke_pc + 1]
                       \in {INVOKESTATIC, INVOKESPECIAL}
                /\ frames[k].return_address = Some(Unwrap(calls[k]).invoke_pc + 3)
    /\ error # "MissingReturnAddress"


\* --------------------------------------------------- properties of call frames

\* Operand stack s is operand stack t without some of its topmost entries.
StackBelow(s, t) == Len(s) <= Len(t) /\ s = SubSeq(t, 1, Len(s))

\* C34: a step of the running call changes no frame beneath the top frame; an
\* invoke that pushes a frame takes only topmost entries off the caller's
\* operand stack and leaves its locals; while the callee runs the caller's
\* stack is what the invoke left; and the matching return pops the callee's
\* frame, so that the depth is the depth before the invoke, and changes the
\* caller's frame only by pushing the returned value, if any.
C34_CalleeIsolation ==
    [][(status = "running" /\ frames # <<>>) =>
         LET d == Len(frames) IN
         /\ Len(calls') = Len(frames')
         /\ Len(frames') \in {d - 1, d, d + 1}
         /\ \A k \in 1..(d - 1) : k < Len(frames') => frames'[k] = frames[k]
         /\ \A k \in 2..Len(frames') :
              IsSome(calls'[k]) =>
                  frames'[k - 1].operand_stack = Unwrap(calls'[k]).caller_stack
         /\ Len(frames') = d + 1 =>
              /\ StackBelow(frames'[d].operand_stack, frames[d].operand_stack)
              /\ frames'[d] =
                     [frames[d] EXCEPT !.operand_stack = frames'[d].operand_stack]
         /\ (Len(frames') = d - 1 /\ d > 1 /\ IsSome(calls[d])) =>
              /\ status' = "running"
              /\ frames[d - 1].operand_stack = Unwrap(calls[d]).caller_stack
              /\ \/ frames'[d - 1] = frames[d - 1]
                 \/ /\ Len(frames[d].operand_stack) > 0
                    /\ frames'[d - 1] =
                         [frames[d - 1] EXCEPT !.operand_stack =
                              Append(@, Last(frames[d].operand_stack))]]_vars

\* sum(1, 2) has returned 3 to a caller that held 5 in local 0 and 3 on its
\* operand stack beneath the two arguments: both are as they were.
C34_Witness ==
    /\ status = "running"
    /\ Len(frames) = 1
    /\ pc = 8
    /\ Last(frames).code = <<ICONST_5, ISTORE_0, ICONST_0 + 3, ICONST_0 + 1,
                             ICONST_0 + 2, INVOKESTATIC, 0, 7, IADD, IRETURN>>
    /\ Last(frames).local_vars = <<IntV(5)>>
    /\ Last(frames).operand_stack = <<IntV(3), IntV(3)>>


\* ------------------------------------------------ both executors on one input
\* execute_method and execute_method_with_class, each on an interpreter of its
\* own, are given the same bytecode, max_locals and max_stack and run side by
\* side, an iteration of each loop at a time.  probe is
\* [stage, call, checked, legacy, explicit, steps]: legacy is the frame, pc and
\* outcome of execute_method, explicit the machine state of the interpreter
\* that runs execute_method_with_class, and steps the number of instructions
\* execute_method_with_class has executed, counted up to one more than the
\* length of the code.

MaxCodeLen == 3

\* Interpreter::new
Interpreter_new ==
    [ frames |-> <<>>, pc |-> 0, objects |-> <<>>, free_list |-> <<>>,
      classes |-> EmptyMap, stdout |-> <<>>, status |-> "idle", error |-> "",
      error_args |-> <<>>, result |-> None ]

\* execute_instruction_explicit: the match on the opcode.
execute_instruction_explicit(m, checked) ==
    LET opcode == code_at(m, 0) IN
    CASE opcode = NOP -> exec_nop(m)
      [] opcode = OP_NEW -> exec_new(m)
      [] opcode = PUTFIELD -> exec_putfield(m)
      [] opcode = GETFIELD -> exec_getfield(m)
      [] opcode = INVOKESPECIAL -> exec_invokespecial(m)
      [] opcode = DUP -> exec_dup(m)
      [] opcode \in ICONST_M1..ICONST_5 -> exec_iconst(m)
      [] opcode = BIPUSH -> exec_bipush(m)
      [] opcode = SIPUSH -> exec_sipush(m)
      [] opcode \in {ALOAD, ILOAD} -> exec_load(m)
      [] opcode \in ALOAD_0..ALOAD_3 -> exec_aload_n(m)
      [] opcode \in ILOAD_0..ILOAD_3 -> exec_iload_n(m)
      [] opcode \in ASTORE_0..ASTORE_3 -> exec_astore_n(m)
      [] opcode \in ISTORE_0..ISTORE_3 -> exec_istore_n(m)
      [] opcode = IADD -> exec_iadd(m, checked)
      [] opcode = ISUB -> exec_isub(m, checked)
      [] opcode = IMUL -> exec_imul(m, checked)
      [] opcode = IDIV -> exec_idiv(m)
      [] opcode \in IFEQ..IFLE -> exec_if(m)
      [] opcode \in IF_ICMPEQ..IF_ICMPLE -> exec_if_icmp(m)
      [] opcode = GOTO -> exec_goto(m)
      [] opcode = INVOKESTATIC -> exec_invokestatic(m)
      [] opcode = GETSTATIC -> exec_getstatic(m)
      [] opcode = INVOKEVIRTUAL -> exec_invokevirtual(m)
      [] opcode = IRETURN -> exec_ireturn(m)
      [] opcode = RETURN -> exec_return(m)
      [] OTHER -> exec_unknown(m)

\* execute_method_with_class up to the main loop.
explicit_start(m, c) ==
    [m EXCEPT !.frames = Append(@, new_with_context(c.max_locals, c.max_stack,
                                                    c.class_name, c.code, None)),
              !.pc = 0, !.status = "running", !.error = "", !.error_args = <<>>,
              !.result = None]

\* One iteration of the main loop of execute_method_with_class.
explicit_iteration(m, checked) ==
    IF pc_out_of_bounds(m.pc, current_code(m))
    THEN fail_with(m, "PcOutOfBounds", <<m.pc, Len(current_code(m))>>)
    ELSE execute_instruction_explicit(m, checked)

\* execute_method up to its loop.
legacy_start(c) ==
    [frame |-> Frame_new(c.max_locals, c.max_stack), pc |-> 0, code |-> c.code,
     status |-> "running", error |-> "", result |-> None]

\* One iteration of the loop of execute_method; when `pc < code.len()` is false
\* the call ends with Ok(return_value), return_value still None.
legacy_iteration(l, checked) ==
    IF UGe(l.pc, Len(l.code))
    THEN [l EXCEPT !.status = "returned", !.result = None]
    ELSE LET n == execute_instruction_legacy(
                      legacy_state([frame |-> l.frame, pc |-> l.pc, code |-> l.code]),
                      checked)
         IN [l EXCEPT !.frame = [top(n) EXCEPT !.code = <<>>], !.pc = n.pc,
                      !.status = n.status, !.error = n.error, !.result = n.result]

\* The bytes the enumerated bytecode is made of: nop, iconst_1, iload_0,
\* istore_0, iadd, ifeq, goto, ireturn, return.  After ifeq and goto a byte is
\* an offset byte.
BothBytes == {NOP, ICONST_0 + 1, ILOAD_0, ISTORE_0, IADD, IFEQ, GOTO, IRETURN, RETURN}

RECURSIVE CodesOfLength(_)
CodesOfLength(n) ==
    IF n = 0 THEN {<<>>}
    ELSE { Append(code, b) : code \in CodesOfLength(n - 1), b \in BothBytes }

\* Every bytecode of 1 to MaxCodeLen of these bytes, and bytecode with the
\* other opcodes the two executors share and with backward branches.
BothCodes ==
    UNION { CodesOfLength(n) : n \in 1..MaxCodeLen }
    \cup { <<BIPUSH, 10, SIPUSH, 1, 0, ISUB, IRETURN>>,
           <<ICONST_5, ICONST_0 + 2, IMUL, ICONST_0 + 3, IDIV, IRETURN>>,
           <<ICONST_0 + 1, ICONST_0, IDIV, IRETURN>>,
           <<ICONST_0 + 2, ISTORE_0 + 1, ILOAD_0 + 1, IRETURN>>,
           <<GOTO, 255, 253>>,
           <<ICONST_0, IFEQ, 255, 255>>,
           <<ICONST_0 + 1, ICONST_0 + 2, IF_ICMPLT, 0, 5, ICONST_0, IRETURN,
             ICONST_0 + 4, IRETURN>>,
           <<ICONST_0 + 2, ICONST_0 + 1, IF_ICMPLT, 0, 5, ICONST_0, IRETURN,
             ICONST_0 + 4, IRETURN>>,
           <<ICONST_0 + 1, IFNE, 0, 9, NOP>>,
           <<ICONST_0, IFEQ, 0, 4, ICONST_0 + 1, ICONST_0 + 3, IRETURN>>,
           <<GOTO, 0, 4, SIPUSH, GOTO, 255, 252>>,
           <<BIPUSH>>, <<ICONST_0, IFEQ, 0>>, <<194>> }

BothCalls ==
    { Call(<<"M">>, code, max_locals, 2) : code \in BothCodes, max_locals \in 0..2 }

BothStart ==
    /\ frames = <<>>
    /\ pc = 0
    /\ objects = <<>>
    /\ free_list = <<>>
    /\ classes = EmptyMap
    /\ stdout = <<>>
    /\ status = "idle"
    /\ error = ""
    /\ error_args = <<>>
    /\ result = None
    /\ runs = 0
    /\ calls = <<>>
    /\ fetched = <<>>
    /\ probe = [stage |-> "new"]

BothSame == UNCHANGED <<frames, pc, objects, free_list, classes, stdout, status,
                        error, error_args, result, runs, calls, fetched>>

\* The two calls are made with the same arguments, on a build with or without
\* overflow checks.
BothExecute ==
    /\ probe.stage = "new"
    /\ \E c \in BothCalls, checked \in BOOLEAN :
         probe' = [stage |-> "called", call |-> c, checked |-> checked,
                   legacy |-> legacy_start(c),
                   explicit |-> explicit_start(Interpreter_new, c),
                   steps |-> 0]
    /\ BothSame

\* Each call that has not ended goes through its loop once.
BothIterate ==
    /\ probe.stage = "called"
    /\ probe.legacy.status = "running" \/ probe.explicit.status = "running"
    /\ \E l \in {IF probe.legacy.status = "running"
                 THEN legacy_iteration(probe.legacy, probe.checked)
                 ELSE probe.legacy},
          m \in {IF probe.explicit.status = "running"
                 THEN explicit_iteration(probe.explicit, probe.checked)
                 ELSE probe.explicit} :
          /\ Len(l.frame.operand_stack) <= MaxOperands
          /\ WithinBounds(m)
          /\ probe' = [probe EXCEPT
                          !.legacy = l, !.explicit = m,
                          !.steps = IF /\ probe.explicit.status = "running"
                                       /\ ~pc_out_of_bounds(probe.explicit.pc,
                                                            probe.call.code)
                                       /\ @ <= Len(probe.call.code)
                                    THEN @ + 1 ELSE @]
    /\ BothSame

BothNext == BothExecute \/ BothIterate

SpecBoth == BothStart /\ [][BothNext]_vars

\* C35: on bytecode made of the opcodes both executors implement, with the
\* same max_locals and max_stack and a fresh interpreter each, execute_method
\* and execute_method_with_class end alike: both return, and the same value
\* (or both no value), or neither returns.
C35_ExecutorsAgree ==
    (/\ probe.stage = "called"
     /\ probe.legacy.status # "running"
     /\ probe.explicit.status # "running") =>
        \/ /\ probe.legacy.status = "returned"
           /\ probe.explicit.status = "returned"
           /\ probe.legacy.result = probe.explicit.result
        \/ /\ probe.legacy.status # "returned"
           /\ probe.explicit.status # "returned"


\* ------------------------------------------- properties of the cache on failure

\* Map m2 holds every entry of map m1.
Keeps(m1, m2) == \A k \in DOMAIN m1 : MapHas(m2, k) /\ m2[k] = m1[k]

\* No entry memoized in the runtime pool of a loaded class is removed or
\* replaced by the step.
MemoizedEntriesStay ==
    \A c \in DOMAIN classes :
      /\ MapHas(classes', c)
      /\ Keeps(classes[c].runtime_pool.resolved_classes,
               classes'[c].runtime_pool.resolved_classes)
      /\ Keeps(classes[c].runtime_pool.resolved_methods,
               classes'[c].runtime_pool.resolved_methods)
      /\ Keeps(classes[c].runtime_pool.resolved_fields,
               classes'[c].runtime_pool.resolved_fields)

\* The resolver just called has failed.
ResolverFailed == ResolverCalled /\ ~probe'.last.ok

\* C36: when a resolver returns an error, the three maps of the class's runtime
\* constant pool are exactly as they were before the call; and no step removes
\* or replaces a memoized entry.
C36_FailedResolutionKeepsCache ==
    [][/\ ResolverFailed =>
            classes'[probe'.last.class].runtime_pool =
                classes[probe'.last.class].runtime_pool
       /\ MemoizedEntriesStay]_vars

\* C36 as the resolvers have it: a failed resolver leaves resolved_methods and
\* resolved_fields as they were, and resolved_classes too unless it is
\* resolve_method_ref or resolve_field_ref at an entry of the kind it accepts
\* whose class index is a Class named by a Utf8: then the class name is
\* memoized under that class index, the failure being that of the
\* name-and-type index.  No other class changes, and no step removes or
\* replaces a memoized entry.
C36_FailedResolutionMemoizesOnlyClass ==
    [][/\ ResolverFailed =>
            LET call == probe'.last
                cm == classes[call.class]
                pool == cm.constant_pool
                i == call.index
                member == /\ call.op # "resolve_class_ref"
                          /\ ~NoEntry(pool, i)
                          /\ TagAt(pool, i) \in Accepts(call.op)
                          /\ NamedClass(pool, Unwrap(pool[i + 1]).class_index)
                after == classes'[call.class].runtime_pool
            IN
            /\ after.resolved_methods = cm.runtime_pool.resolved_methods
            /\ after.resolved_fields = cm.runtime_pool.resolved_fields
            /\ after.resolved_classes =
                  IF member
                  THEN LET ci == Unwrap(pool[i + 1]).class_index IN
                       MapPut(cm.runtime_pool.resolved_classes, ci,
                              Unwrap(pool[Unwrap(pool[ci + 1]).name_index + 1]).s)
                  ELSE cm.runtime_pool.resolved_classes
            /\ \A c \in DOMAIN classes \ {call.class} : classes'[c] = classes[c]
       /\ MemoizedEntriesStay]_vars

\* resolve_method_ref has failed at the method reference of U whose
\* name-and-type index is a Utf8, as the first resolution in U: no method is
\* memoized and the class name U is, under the class index 2.
C36_Witness ==
    /\ probe.last.op = "resolve_method_ref"
    /\ probe.last.class = <<"U">>
    /\ probe.last.index = 12
    /\ ~probe.last.ok
    /\ probe.last.err = "WrongEntryKind"
    /\ probe.reads = {<<<<"U">>, 12>>, <<<<"U">>, 2>>}
    /\ classes[<<"U">>].runtime_pool.resolved_methods = EmptyMap
    /\ classes[<<"U">>].runtime_pool.resolved_classes = MapPut(EmptyMap, 2, <<"U">>)


\* -------------------------------------------------------- the garbage collector
\* A GarbageCollector and the Heap it collects.  probe is [roots, op, collected]:
\* the roots set, the last call made and what the last collect returned.

\* mark: mark_object inserts every root; the fields of an object are not
\* followed.
mark(roots, h) == roots

\* The rest of `for i in 0..n` of sweep from index i on.
RECURSIVE sweep_from(_, _, _, _, _)
sweep_from(h, reachable, i, n, collected) ==
    IF i >= n THEN [heap |-> h, collected |-> collected]
    ELSE IF i \in reachable THEN sweep_from(h, reachable, i + 1, n, collected)
    ELSE Let(free(h, i), LAMBDA r :
         sweep_from(r.heap, reachable, i + 1, n,
                    IF r.ok THEN collected + 1 ELSE collected))

\* sweep: the range 0..heap.object_count() is evaluated before the loop.
sweep(h, reachable) == sweep_from(h, reachable, 0, object_count(h), 0)

collect(roots, h) == sweep(h, mark(roots, h))

GcCall(roots, op, collected) == [roots |-> roots, op |-> op, collected |-> collected]

\* GarbageCollector::new and Heap::new
GcStart ==
    /\ frames = <<>>
    /\ pc = 0
    /\ objects = <<>>
    /\ free_list = <<>>
    /\ classes = EmptyMap
    /\ stdout = <<>>
    /\ status = "idle"
    /\ error = ""
    /\ error_args = <<>>
    /\ result = None
    /\ runs = 0
    /\ calls = <<>>
    /\ fetched = <<>>
    /\ probe = GcCall({}, "new", 0)

GcAllocate ==
    \E class_name \in HeapClassNames :
      LET a == allocate(Heap, class_name) IN
      /\ Len(a.heap.objects) <= MaxObjects
      /\ objects' = a.heap.objects
      /\ free_list' = a.heap.free_list
      /\ probe' = GcCall(probe.roots, "allocate", probe.collected)
      /\ HeapSame

GcFree ==
    \E index \in HeapIndices :
      LET r == free(Heap, index) IN
      /\ Len(r.heap.free_list) <= MaxObjects
      /\ objects' = r.heap.objects
      /\ free_list' = r.heap.free_list
      /\ probe' = GcCall(probe.roots, "free", probe.collected)
      /\ HeapSame

GcAddRoot ==
    \E object_ref \in HeapIndices :
      /\ probe' = GcCall(probe.roots \cup {object_ref}, "add_root", probe.collected)
      /\ UNCHANGED <<objects, free_list>>
      /\ HeapSame

GcRemoveRoot ==
    \E object_ref \in HeapIndices :
      /\ probe' = GcCall(probe.roots \ {object_ref}, "remove_root", probe.collected)
      /\ UNCHANGED <<objects, free_list>>
      /\ HeapSame

GcCollect ==
    LET r == collect(probe.roots, Heap) IN
    /\ Len(r.heap.free_list) <= MaxObjects
    /\ objects' = r.heap.objects
    /\ free_list' = r.heap.free_list
    /\ probe' = GcCall(probe.roots, "collect", r.collected)
    /\ HeapSame

GcNext == GcAllocate \/ GcFree \/ GcAddRoot \/ GcRemoveRoot \/ GcCollect

SpecGc == GcStart /\ [][GcNext]_vars

\* The handles of the allocated objects of slots objs.
Allocated(objs) == {k \in 0..(Len(objs) - 1) : IsSome(objs[k + 1])}

\* C37: after collect the allocated handles are exactly the handles allocated
\* before that are in roots, each object with its contents unchanged, and the
\* returned count is the number of objects allocated before and not after.
C37_CollectFreesUnrooted ==
    [][probe'.op = "collect" =>
         /\ Allocated(objects') = Allocated(objects) \cap probe.roots
         /\ \A k \in Allocated(objects') : objects'[k + 1] = objects[k + 1]
         /\ probe'.collected =
                Cardinality(Allocated(objects) \ Allocated(objects'))]_vars


\* --------------------------------------------- properties of truncated operands

\* The number of operand bytes that follow opcode op.
OperandBytes(op) ==
    IF op \in {BIPUSH, ILOAD, ALOAD} THEN 1
    ELSE IF op \in {SIPUSH, GOTO, OP_NEW, GETFIELD, PUTFIELD, GETSTATIC, INVOKESTATIC,
                    INVOKESPECIAL, INVOKEVIRTUAL} \cup (IFEQ..IF_ICMPLE) THEN 2
    ELSE 0

\* The opcode at PC takes operand bytes of which one lies at or beyond the end
\* of the code.
TruncatedAtPc ==
    /\ status = "running"
    /\ frames # <<>>
    /\ pc >= 0
    /\ pc < Len(Last(frames).code)
    /\ pc + OperandBytes(Last(frames).code[pc + 1]) >= Len(Last(frames).code)

\* C38: when the opcode fetched takes operand bytes and one of them lies at or
\* beyond len(code), the call returns an error: it does not abort, and it
\* changes no frame.
C38_TruncatedOperandsFail ==
    [][TruncatedAtPc => (status' = "failed" /\ frames' = frames)]_vars


\* ------------------------------------------------ properties of forward-only code

BranchOpcodes == (IFEQ..IF_ICMPLE) \cup {GOTO}
InvokeOpcodes == {INVOKEVIRTUAL, INVOKESPECIAL, INVOKESTATIC}
ReturnOpcodes == {IRETURN, RETURN}

\* No byte of the code is the opcode of an invoke, and no byte is the opcode of
\* a branch whose two operand bytes hold an offset <= 0.  Every position counts,
\* since a branch may land on a byte that a straight reading of the code takes
\* for an operand.
ForwardOnly(code) ==
    \A p \in 1..Len(code) :
        /\ code[p] \notin InvokeOpcodes
        /\ (code[p] \in BranchOpcodes /\ p + 2 <= Len(code))
               => i16_from_be_bytes(code[p + 1], code[p + 2]) > 0

\* execute_method_with_class fetches an instruction in this step.
ExplicitFetches ==
    /\ probe.stage = "called"
    /\ probe.explicit.status = "running"
    /\ ~pc_out_of_bounds(probe.explicit.pc, probe.call.code)

====
